---- MODULE Spec2Model ----
(***************************************************************************)
(* Wallet ledger and request-approval engine (Alpha060/Wallet).            *)
(*                                                                         *)
(* The database is the shared state: the tables users, deposit_requests,   *)
(* withdrawal_requests, referral_bonuses and bonus_claim_requests.  Every  *)
(* service method is run by a caller (a process); each awaited query of a  *)
(* method is one atomic step, so two callers interleave between queries.   *)
(* Queries sent through the shared pool commit on their own; only the      *)
(* queries createWithdrawalRequest sends through its own client are inside *)
(* a transaction and hold the users row lock taken by SELECT .. FOR UPDATE.*)
(***************************************************************************)
EXTENDS Integers, Sequences, FiniteSets, TLC

\* ------------------------------------------------------------------ bounds
NProcs == 2
MaxDeposits == 1
MaxWithdrawals == 2
MaxClaims == 2
MaxCalls == 3

\* ------------------------------------------------------- program constants
MIN_DEPOSIT == 100
MIN_WITHDRAWAL == 100
REQUIRED_REFERRALS == 5
BONUS_PERCENT == 5

\* --------------------------------------------------------------- id spaces
NULL == 0
NoProc == 0
Procs == 1 .. NProcs

Referrer == 1
Referred == 2
OldReferred == 3 .. 7
AdminId == 8
UnknownId == 99

DepositAmounts == {0, 99, 50000}
WithdrawAmounts == {50, 20000, 30000}
InitialBalance == 50000
OldDepositAmount == 100
PendingDepositAmount == 50000
SomeReason == 1
Reasons == {NULL, SomeReason}

VARIABLES
    users,        \* id -> [walletBalance, referredBy]        (table users)
    deposits,     \* sequence of deposit_requests rows, id = index
    withdrawals,  \* sequence of withdrawal_requests rows, id = index
    bonuses,      \* sequence of referral_bonuses rows, id = index
    claims,       \* sequence of bonus_claim_requests rows, id = index
    rowLock,      \* user id -> process holding the row lock (FOR UPDATE)
    pc,           \* process -> next step of the method it runs
    loc,          \* process -> local variables of the method it runs
    ret,          \* the call that returned in the last step, and its outcome
    calls,        \* number of calls made so far
    audit         \* history: per request successful calls and amounts moved

vars == <<users, deposits, withdrawals, bonuses, claims, rowLock, pc, loc, ret, calls, audit>>
db == <<users, deposits, withdrawals, bonuses, claims>>

\* ----------------------------------------------------------------- helpers
RECURSIVE SumSeq(_)
SumSeq(s) ==
    IF s = <<>> THEN 0 ELSE Head(s) + SumSeq(Tail(s))

Loc0 == [id |-> 0, userId |-> 0, amount |-> 0, walletBalance |-> 0,
         adminId |-> 0, reason |-> NULL, referredBy |-> NULL]

\* What DELETE leaves of a row: ids are never reused.
Gone == [gone |-> TRUE]

IdsOf(table) == {i \in 1 .. Len(table) : table[i] # Gone}
CallIds(table) == IdsOf(table) \cup {UnknownId}

\* A caller makes a new call when it runs no method.
Start(p) == pc[p] = "idle" /\ calls < MaxCalls

NoReturn == [proc |-> NoProc, outcome |-> "none", needed |-> 0]

\* A call returns: the process becomes idle; ret shows the outcome until the
\* next step.
Return(p, outcome) ==
    /\ pc' = [pc EXCEPT ![p] = "idle"]
    /\ loc' = [loc EXCEPT ![p] = Loc0]
    /\ ret' = [proc |-> p, outcome |-> outcome, needed |-> 0]
    /\ calls' = IF pc[p] = "idle" THEN calls + 1 ELSE calls

\* A call fails with 'You need ${needed} more confirmed referral(s)'.
ReturnNeeded(p, needed) ==
    /\ pc' = [pc EXCEPT ![p] = "idle"]
    /\ loc' = [loc EXCEPT ![p] = Loc0]
    /\ ret' = [proc |-> p, outcome |-> "EligibilityNotMet", needed |-> needed]
    /\ calls' = IF pc[p] = "idle" THEN calls + 1 ELSE calls

Goto(p, label, locals) ==
    /\ pc' = [pc EXCEPT ![p] = label]
    /\ loc' = [loc EXCEPT ![p] = locals]
    /\ ret' = NoReturn
    /\ calls' = IF pc[p] = "idle" THEN calls + 1 ELSE calls

\* ------------------------------------------------------------ repositories
rowLockFree_always(id) == TRUE

\* A statement that writes or locks a users row waits while another
\* transaction holds the lock SELECT .. FOR UPDATE took on that row.
rowLockFree(id) == rowLock[id] = NoProc

updateBalance_noWait(id, newBalance) ==
    users' = IF id \in DOMAIN users
             THEN [users EXCEPT ![id].walletBalance = newBalance]
             ELSE users

\* UPDATE users SET wallet_balance = $1 WHERE id = $2 (through the pool);
\* no row is written when the account is gone.
updateBalance(id, newBalance) ==
    /\ rowLockFree(id)
    /\ users' = IF id \in DOMAIN users
                THEN [users EXCEPT ![id].walletBalance = newBalance]
                ELSE users

\* An UPDATE that would leave rejection_reason as it was.
updateStatus_keepsReason(row, status, processedBy, rejectionReason) ==
    IF row = Gone THEN row
    ELSE [row EXCEPT !.status = status, !.processedAt = TRUE,
                     !.processedBy = processedBy]

\* UPDATE <requests> SET status, processed_at, processed_by, rejection_reason
\* WHERE id = ..; no row is written when the request is gone.
updateStatus(row, status, processedBy, rejectionReason) ==
    IF row = Gone THEN row
    ELSE [row EXCEPT !.status = status, !.processedAt = TRUE,
                     !.processedBy = processedBy, !.rejectionReason = rejectionReason]

\* INSERT INTO deposit_requests (.., status) VALUES (.., 'pending')
DepositRow(userId, amount) ==
    [userId |-> userId, amount |-> amount, status |-> "pending",
     processedAt |-> FALSE, processedBy |-> NULL, rejectionReason |-> NULL]

bonusAmountOf_rounded(depositAmount) == (depositAmount * BONUS_PERCENT + 50) \div 100

\* bonusAmount = Math.floor(depositAmount * BONUS_PERCENTAGE), 0.05 = 5/100
bonusAmountOf(depositAmount) == (depositAmount * BONUS_PERCENT) \div 100

\* INSERT INTO referral_bonuses (..); is_claimed defaults to FALSE
BonusRow(referrerId, referredUserId, depositId, depositAmount, bonusAmount) ==
    [referrerId |-> referrerId, referredUserId |-> referredUserId,
     depositId |-> depositId, depositAmount |-> depositAmount,
     bonusAmount |-> bonusAmount, isClaimed |-> FALSE]

\* ---------------------------------------------------------------- initial
\* The referrer has five referred accounts with an approved deposit each and
\* an approved deposit of his own; the sixth referred account has a deposit
\* request waiting for approval.  The approval of the last old deposit made
\* a referral bonus, which the referrer has not claimed yet.
OldDeposit(userId, amount) ==
    [userId |-> userId, amount |-> amount, status |-> "approved",
     processedAt |-> TRUE, processedBy |-> AdminId, rejectionReason |-> NULL]

InitDeposits ==
    <<OldDeposit(Referrer, InitialBalance)>> \o
    [i \in 1 .. 5 |-> OldDeposit(i + 2, OldDepositAmount)] \o
    <<DepositRow(Referred, PendingDepositAmount)>>

InitBonuses ==
    <<BonusRow(Referrer, 7, 6, OldDepositAmount, bonusAmountOf(OldDepositAmount))>>

InitUsers ==
    [u \in {Referrer, Referred} \cup OldReferred |->
        [walletBalance |-> IF u = Referrer THEN InitialBalance
                           ELSE IF u = Referred THEN 0 ELSE OldDepositAmount,
         referredBy |-> IF u = Referrer THEN NULL ELSE Referrer]]

Init ==
    /\ users = InitUsers
    /\ deposits = InitDeposits
    /\ withdrawals = <<>>
    /\ bonuses = InitBonuses
    /\ claims = <<>>
    /\ rowLock = [u \in DOMAIN InitUsers |-> NoProc]
    /\ pc = [p \in Procs |-> "idle"]
    /\ loc = [p \in Procs |-> Loc0]
    /\ ret = NoReturn
    /\ calls = 0
    /\ audit = [depOk |-> [i \in 1 .. 7 |-> IF i < 7 THEN 1 ELSE 0],
                depCredit |-> [i \in 1 .. 7 |-> IF i < 7 THEN InitDeposits[i].amount ELSE 0],
                wdOk |-> <<>>, wdRefund |-> <<>>,
                clOk |-> <<>>, clCredit |-> <<>>,
                expected |-> [u \in DOMAIN InitUsers |-> InitUsers[u].walletBalance]]

\* ------------------------------------------------------------- history
\* Appending a request row appends its counters.
Grow(field) == [audit EXCEPT ![field[1]] = Append(@, 0), ![field[2]] = Append(@, 0)]

Succeeded(a, field, id) == [a EXCEPT ![field][id] = @ + 1]
Moved(a, field, id, amount) == [a EXCEPT ![field][id] = @ + amount]
Expect(a, userId, delta) == [a EXCEPT !.expected[userId] = @ + delta]

\* ========================================================= DepositService
createDepositRequest_anyAmount(p, userId, amount, paymentProofFile) ==
    /\ Start(p)
    /\ IF amount <= 0 \/ ~paymentProofFile THEN
           /\ Return(p, "ValidationError")
           /\ UNCHANGED <<db, rowLock, audit>>
       ELSE
           /\ Len(deposits) < Len(InitDeposits) + MaxDeposits
           /\ deposits' = Append(deposits, DepositRow(userId, amount))
           /\ audit' = Grow(<<"depOk", "depCredit">>)
           /\ Return(p, "ok")
           /\ UNCHANGED <<users, withdrawals, bonuses, claims, rowLock>>

\* createDepositRequest: validation, then depositRepository.create, whose
\* INSERT fails on the foreign key user_id when the account is gone.
createDepositRequest(p, userId, amount, paymentProofFile) ==
    /\ Start(p)
    /\ IF amount <= 0 THEN
           /\ Return(p, "ValidationError")
           /\ UNCHANGED <<db, rowLock, audit>>
       ELSE IF amount < MIN_DEPOSIT THEN
           /\ Return(p, "ValidationError")
           /\ UNCHANGED <<db, rowLock, audit>>
       ELSE IF ~paymentProofFile THEN
           /\ Return(p, "ValidationError")
           /\ UNCHANGED <<db, rowLock, audit>>
       ELSE IF userId \notin DOMAIN users THEN
           /\ Return(p, "Error")
           /\ UNCHANGED <<db, rowLock, audit>>
       ELSE
           /\ Len(deposits) < Len(InitDeposits) + MaxDeposits
           /\ deposits' = Append(deposits, DepositRow(userId, amount))
           /\ audit' = Grow(<<"depOk", "depCredit">>)
           /\ Return(p, "ok")
           /\ UNCHANGED <<users, withdrawals, bonuses, claims, rowLock>>

approveDeposit_findById_unguarded(p, depositId, adminId) ==
    /\ Start(p)
    /\ IF depositId \notin IdsOf(deposits) THEN
           Return(p, "NotFound")
       ELSE
           Goto(p, "approveDeposit_findUser",
                [Loc0 EXCEPT !.id = depositId, !.adminId = adminId,
                             !.userId = deposits[depositId].userId,
                             !.amount = deposits[depositId].amount])
    /\ UNCHANGED <<db, rowLock, audit>>

\* approveDeposit, first query: depositRepository.findById and the guards.
approveDeposit_findById(p, depositId, adminId) ==
    /\ Start(p)
    /\ IF depositId \notin IdsOf(deposits) THEN
           Return(p, "NotFound")
       ELSE IF deposits[depositId].status # "pending" THEN
           Return(p, "AlreadyProcessed")
       ELSE
           Goto(p, "approveDeposit_findUser",
                [Loc0 EXCEPT !.id = depositId, !.adminId = adminId,
                             !.userId = deposits[depositId].userId,
                             !.amount = deposits[depositId].amount])
    /\ UNCHANGED <<db, rowLock, audit>>

\* An approveDeposit that would go on without the account.
approveDeposit_findUser_unchecked(p) ==
    /\ pc[p] = "approveDeposit_findUser"
    /\ Goto(p, "approveDeposit_updateBalance",
            [loc[p] EXCEPT !.walletBalance =
                IF loc[p].userId \in DOMAIN users
                THEN users[loc[p].userId].walletBalance ELSE 0])
    /\ UNCHANGED <<db, rowLock, audit>>

\* approveDeposit: userRepository.findById(deposit.userId), unlocked read.
approveDeposit_findUser(p) ==
    /\ pc[p] = "approveDeposit_findUser"
    /\ IF loc[p].userId \notin DOMAIN users THEN
           Return(p, "NotFound")
       ELSE
           Goto(p, "approveDeposit_updateBalance",
                [loc[p] EXCEPT !.walletBalance = users[loc[p].userId].walletBalance])
    /\ UNCHANGED <<db, rowLock, audit>>

\* approveDeposit: newBalance = user.walletBalance + deposit.amount, written
\* by userRepository.updateBalance.
approveDeposit_updateBalance(p) ==
    /\ pc[p] = "approveDeposit_updateBalance"
    /\ updateBalance(loc[p].userId, loc[p].walletBalance + loc[p].amount)
    /\ audit' = Expect(Moved(audit, "depCredit", loc[p].id, loc[p].amount),
                       loc[p].userId, loc[p].amount)
    /\ Goto(p, "approveDeposit_updateStatus", loc[p])
    /\ UNCHANGED <<deposits, withdrawals, bonuses, claims, rowLock>>

approveDeposit_updateStatus_noAdmin(p) ==
    /\ pc[p] = "approveDeposit_updateStatus"
    /\ deposits' = [deposits EXCEPT ![loc[p].id] = updateStatus(@, "approved", NULL, NULL)]
    /\ Goto(p, "createBonusForDeposit_findUser", loc[p])
    /\ UNCHANGED <<users, withdrawals, bonuses, claims, rowLock, audit>>

\* approveDeposit: depositRepository.updateStatus(depositId, 'approved', ..).
approveDeposit_updateStatus(p) ==
    /\ pc[p] = "approveDeposit_updateStatus"
    /\ deposits' = [deposits EXCEPT ![loc[p].id] =
                        updateStatus(@, "approved", loc[p].adminId, NULL)]
    /\ Goto(p, "createBonusForDeposit_findUser", loc[p])
    /\ UNCHANGED <<users, withdrawals, bonuses, claims, rowLock, audit>>

\* rejectDeposit, first query: depositRepository.findById and the guards.
rejectDeposit_findById(p, depositId, adminId, rejectionReason) ==
    /\ Start(p)
    /\ IF depositId \notin IdsOf(deposits) THEN
           Return(p, "NotFound")
       ELSE IF deposits[depositId].status # "pending" THEN
           Return(p, "AlreadyProcessed")
       ELSE
           Goto(p, "rejectDeposit_updateStatus",
                [Loc0 EXCEPT !.id = depositId, !.adminId = adminId,
                             !.reason = rejectionReason])
    /\ UNCHANGED <<db, rowLock, audit>>

rejectDeposit_updateStatus_noReason(p) ==
    /\ pc[p] = "rejectDeposit_updateStatus"
    /\ deposits' = [deposits EXCEPT ![loc[p].id] =
                        updateStatus(@, "rejected", loc[p].adminId, NULL)]
    /\ audit' = Succeeded(audit, "depOk", loc[p].id)
    /\ Return(p, "ok")
    /\ UNCHANGED <<users, withdrawals, bonuses, claims, rowLock>>

\* rejectDeposit: depositRepository.updateStatus(depositId, 'rejected', ..).
rejectDeposit_updateStatus(p) ==
    /\ pc[p] = "rejectDeposit_updateStatus"
    /\ deposits' = [deposits EXCEPT ![loc[p].id] =
                        updateStatus(@, "rejected", loc[p].adminId, loc[p].reason)]
    /\ audit' = Succeeded(audit, "depOk", loc[p].id)
    /\ Return(p, "ok")
    /\ UNCHANGED <<users, withdrawals, bonuses, claims, rowLock>>

\* approveDeposit returns after COMMIT on its (unused) client.
approveDeposit_return(p) ==
    /\ audit' = Succeeded(audit, "depOk", loc[p].id)
    /\ Return(p, "ok")

\* referralBonusService.createBonusForDeposit(depositUserId, depositId,
\* depositAmount) called with arguments of the caller's choice.
createBonusForDeposit(p, depositUserId, depositId, depositAmount) ==
    /\ Start(p)
    /\ Goto(p, "createBonusForDeposit_findUser",
            [Loc0 EXCEPT !.id = depositId, !.userId = depositUserId,
                         !.amount = depositAmount])
    /\ UNCHANGED <<db, rowLock, audit>>

\* createBonusForDeposit: userRepository.findById(depositUserId), the
\* referrer check and the bonus amount check.
createBonusForDeposit_findUser(p) ==
    /\ pc[p] = "createBonusForDeposit_findUser"
    /\ IF \/ loc[p].userId \notin DOMAIN users
          \/ users[loc[p].userId].referredBy = NULL
          \/ bonusAmountOf(loc[p].amount) <= 0
       THEN approveDeposit_return(p)
       ELSE /\ Goto(p, "createBonusForDeposit_create",
                    [loc[p] EXCEPT !.referredBy = users[loc[p].userId].referredBy])
            /\ audit' = audit
    /\ UNCHANGED <<db, rowLock>>

createBonusForDeposit_create_credits(p) ==
    /\ pc[p] = "createBonusForDeposit_create"
    /\ bonuses' = Append(bonuses,
                         BonusRow(loc[p].referredBy, loc[p].userId, loc[p].id,
                                  loc[p].amount, bonusAmountOf(loc[p].amount)))
    /\ users' = [users EXCEPT ![loc[p].referredBy].walletBalance =
                                 @ + bonusAmountOf(loc[p].amount)]
    /\ approveDeposit_return(p)
    /\ UNCHANGED <<deposits, withdrawals, claims, rowLock>>

\* createBonusForDeposit: referralBonusRepository.create(..); the INSERT
\* fails on a foreign key when the referrer, the referred account or the
\* deposit is gone, and the caller swallows the error.
createBonusForDeposit_create(p) ==
    /\ pc[p] = "createBonusForDeposit_create"
    /\ bonuses' = IF /\ loc[p].referredBy \in DOMAIN users
                     /\ loc[p].userId \in DOMAIN users
                     /\ loc[p].id \in IdsOf(deposits)
                  THEN Append(bonuses,
                              BonusRow(loc[p].referredBy, loc[p].userId, loc[p].id,
                                       loc[p].amount, bonusAmountOf(loc[p].amount)))
                  ELSE bonuses
    /\ approveDeposit_return(p)
    /\ UNCHANGED <<users, deposits, withdrawals, claims, rowLock>>

createBonusForDeposit_throw_rollback(p) ==
    /\ pc[p] \in {"createBonusForDeposit_findUser", "createBonusForDeposit_create"}
    /\ users' = [users EXCEPT ![loc[p].userId].walletBalance = loc[p].walletBalance]
    /\ deposits' = [deposits EXCEPT ![loc[p].id] =
                        DepositRow(loc[p].userId, loc[p].amount)]
    /\ Return(p, "Error")
    /\ UNCHANGED <<withdrawals, bonuses, claims, rowLock, audit>>

\* createBonusForDeposit throws (one of its queries fails): approveDeposit
\* catches the error, logs it and goes on to COMMIT and return.
createBonusForDeposit_throw(p) ==
    /\ pc[p] \in {"createBonusForDeposit_findUser", "createBonusForDeposit_create"}
    /\ approveDeposit_return(p)
    /\ UNCHANGED <<db, rowLock>>

\* ====================================================== WithdrawalService
\* bankDetails as validateBankDetails sees it: each field is absent, or
\* present and matching its pattern ("valid"), or present and not matching.
ValidUpi ==
    [isObject |-> TRUE, upiId |-> "valid", accountNumber |-> "absent", ifscCode |-> "absent"]

BankDetailsInputs ==
    {[isObject |-> FALSE, upiId |-> "absent", accountNumber |-> "absent", ifscCode |-> "absent"],
     [isObject |-> TRUE, upiId |-> "absent", accountNumber |-> "absent", ifscCode |-> "absent"],
     [isObject |-> TRUE, upiId |-> "invalid", accountNumber |-> "absent", ifscCode |-> "absent"],
     [isObject |-> TRUE, upiId |-> "absent", accountNumber |-> "present", ifscCode |-> "absent"],
     [isObject |-> TRUE, upiId |-> "absent", accountNumber |-> "present", ifscCode |-> "invalid"],
     [isObject |-> TRUE, upiId |-> "absent", accountNumber |-> "present", ifscCode |-> "valid"]}

\* TRUE when validateBankDetails does not throw.
validateBankDetails(bankDetails) ==
    /\ bankDetails.isObject
    /\ ~(bankDetails.upiId = "absent" /\ bankDetails.accountNumber = "absent")
    /\ bankDetails.upiId # "invalid"
    /\ ~(bankDetails.accountNumber = "present" /\ bankDetails.ifscCode = "absent")
    /\ bankDetails.ifscCode # "invalid"

confirmedReferrals_allReferred(userId) ==
    Cardinality({u \in DOMAIN users : users[u].referredBy = userId})

\* SELECT COUNT(DISTINCT u.id) FROM users u JOIN deposit_requests d
\*   ON u.id = d.user_id WHERE u.referred_by = $1 AND d.status = 'approved'
confirmedReferrals(userId) ==
    Cardinality({u \in DOMAIN users :
        /\ users[u].referredBy = userId
        /\ \E d \in IdsOf(deposits) :
              deposits[d].userId = u /\ deposits[d].status = "approved"})

InCreateWithdrawal(q) ==
    pc[q] \in {"createWithdrawalRequest_lock", "createWithdrawalRequest_commit"}

createWithdrawalRequest_validate_bankFirst(p, userId, amount, bankDetails) ==
    /\ Start(p)
    /\ Len(withdrawals) + Cardinality({q \in Procs : InCreateWithdrawal(q)}) < MaxWithdrawals
    /\ IF amount <= 0 THEN
           Return(p, "ValidationError")
       ELSE IF amount < MIN_WITHDRAWAL THEN
           Return(p, "ValidationError")
       ELSE IF ~validateBankDetails(bankDetails) THEN
           Return(p, "InvalidBankDetails")
       ELSE IF confirmedReferrals(userId) < REQUIRED_REFERRALS THEN
           ReturnNeeded(p, REQUIRED_REFERRALS - confirmedReferrals(userId))
       ELSE
           Goto(p, "createWithdrawalRequest_lock",
                [Loc0 EXCEPT !.userId = userId, !.amount = amount])
    /\ UNCHANGED <<db, rowLock, audit>>

\* createWithdrawalRequest up to the row lock: BEGIN, the amount checks, the
\* referral count query and validateBankDetails.
createWithdrawalRequest_validate(p, userId, amount, bankDetails) ==
    /\ Start(p)
    /\ Len(withdrawals) + Cardinality({q \in Procs : InCreateWithdrawal(q)}) < MaxWithdrawals
    /\ IF amount <= 0 THEN
           Return(p, "ValidationError")
       ELSE IF amount < MIN_WITHDRAWAL THEN
           Return(p, "ValidationError")
       ELSE IF confirmedReferrals(userId) < REQUIRED_REFERRALS THEN
           ReturnNeeded(p, REQUIRED_REFERRALS - confirmedReferrals(userId))
       ELSE IF ~validateBankDetails(bankDetails) THEN
           Return(p, "InvalidBankDetails")
       ELSE
           Goto(p, "createWithdrawalRequest_lock",
                [Loc0 EXCEPT !.userId = userId, !.amount = amount])
    /\ UNCHANGED <<db, rowLock, audit>>

insufficientBalance_unchecked(walletBalance, amount) == FALSE

insufficientBalance_orEqual(walletBalance, amount) == walletBalance <= amount

\* user.walletBalance < amount
insufficientBalance(walletBalance, amount) == walletBalance < amount

createWithdrawalRequest_lock_keepsLock(p) ==
    /\ pc[p] = "createWithdrawalRequest_lock"
    /\ loc[p].userId \in DOMAIN users
    /\ rowLockFree(loc[p].userId)
    /\ rowLock' = [rowLock EXCEPT ![loc[p].userId] = p]
    /\ IF insufficientBalance(users[loc[p].userId].walletBalance, loc[p].amount)
       THEN Return(p, "InsufficientFunds")
       ELSE Goto(p, "createWithdrawalRequest_commit",
                 [loc[p] EXCEPT !.walletBalance = users[loc[p].userId].walletBalance])
    /\ UNCHANGED <<db, audit>>

\* SELECT .. FROM users WHERE id = $1 FOR UPDATE, then the balance check.
\* The statement waits for the row lock; a failing check rolls back, which
\* releases the lock again.
createWithdrawalRequest_lock(p) ==
    /\ pc[p] = "createWithdrawalRequest_lock"
    /\ IF loc[p].userId \notin DOMAIN users THEN
           /\ Return(p, "NotFound")
           /\ rowLock' = rowLock
       ELSE
           /\ rowLockFree(loc[p].userId)
           /\ IF insufficientBalance(users[loc[p].userId].walletBalance, loc[p].amount) THEN
                 /\ Return(p, "InsufficientFunds")
                 /\ rowLock' = rowLock
              ELSE
                 /\ Goto(p, "createWithdrawalRequest_commit",
                         [loc[p] EXCEPT !.walletBalance = users[loc[p].userId].walletBalance])
                 /\ rowLock' = [rowLock EXCEPT ![loc[p].userId] = p]
    /\ UNCHANGED <<db, audit>>

\* INSERT INTO withdrawal_requests (.., status) VALUES (.., 'pending')
WithdrawalRow(userId, amount) ==
    [userId |-> userId, amount |-> amount, status |-> "pending",
     processedAt |-> FALSE, processedBy |-> NULL, rejectionReason |-> NULL]

\* UPDATE users SET wallet_balance = newBalance, INSERT INTO
\* withdrawal_requests and COMMIT: both writes become visible together and
\* the row lock is released.
createWithdrawalRequest_commit(p) ==
    /\ pc[p] = "createWithdrawalRequest_commit"
    /\ users' = [users EXCEPT ![loc[p].userId].walletBalance =
                                 loc[p].walletBalance - loc[p].amount]
    /\ withdrawals' = Append(withdrawals, WithdrawalRow(loc[p].userId, loc[p].amount))
    /\ rowLock' = [rowLock EXCEPT ![loc[p].userId] = NoProc]
    /\ audit' = Expect(Grow(<<"wdOk", "wdRefund">>), loc[p].userId, 0 - loc[p].amount)
    /\ Return(p, "ok")
    /\ UNCHANGED <<deposits, bonuses, claims>>

\* confirmWithdrawal, first query: withdrawalRepository.findById and guards.
confirmWithdrawal_findById(p, withdrawalId, adminId) ==
    /\ Start(p)
    /\ IF withdrawalId \notin IdsOf(withdrawals) THEN
           Return(p, "NotFound")
       ELSE IF withdrawals[withdrawalId].status # "pending" THEN
           Return(p, "AlreadyProcessed")
       ELSE
           Goto(p, "confirmWithdrawal_updateStatus",
                [Loc0 EXCEPT !.id = withdrawalId, !.adminId = adminId])
    /\ UNCHANGED <<db, rowLock, audit>>

confirmWithdrawal_updateStatus_debit(p) ==
    /\ pc[p] = "confirmWithdrawal_updateStatus"
    /\ withdrawals' = [withdrawals EXCEPT ![loc[p].id] =
                          updateStatus(@, "completed", loc[p].adminId, NULL)]
    /\ users' = [users EXCEPT ![withdrawals[loc[p].id].userId].walletBalance =
                                 @ - withdrawals[loc[p].id].amount]
    /\ audit' = Succeeded(audit, "wdOk", loc[p].id)
    /\ Return(p, "ok")
    /\ UNCHANGED <<deposits, bonuses, claims, rowLock>>

\* confirmWithdrawal: withdrawalRepository.updateStatus(id, 'completed', ..).
confirmWithdrawal_updateStatus(p) ==
    /\ pc[p] = "confirmWithdrawal_updateStatus"
    /\ withdrawals' = [withdrawals EXCEPT ![loc[p].id] =
                          updateStatus(@, "completed", loc[p].adminId, NULL)]
    /\ audit' = Succeeded(audit, "wdOk", loc[p].id)
    /\ Return(p, "ok")
    /\ UNCHANGED <<users, deposits, bonuses, claims, rowLock>>

\* rejectWithdrawal, first query: withdrawalRepository.findById and guards.
rejectWithdrawal_findById(p, withdrawalId, adminId, rejectionReason) ==
    /\ Start(p)
    /\ IF withdrawalId \notin IdsOf(withdrawals) THEN
           Return(p, "NotFound")
       ELSE IF withdrawals[withdrawalId].status # "pending" THEN
           Return(p, "AlreadyProcessed")
       ELSE
           Goto(p, "rejectWithdrawal_findUser",
                [Loc0 EXCEPT !.id = withdrawalId, !.adminId = adminId,
                             !.reason = rejectionReason,
                             !.userId = withdrawals[withdrawalId].userId,
                             !.amount = withdrawals[withdrawalId].amount])
    /\ UNCHANGED <<db, rowLock, audit>>

\* rejectWithdrawal: userRepository.findById(withdrawal.userId), unlocked.
rejectWithdrawal_findUser(p) ==
    /\ pc[p] = "rejectWithdrawal_findUser"
    /\ IF loc[p].userId \notin DOMAIN users THEN
           Return(p, "NotFound")
       ELSE
           Goto(p, "rejectWithdrawal_updateBalance",
                [loc[p] EXCEPT !.walletBalance = users[loc[p].userId].walletBalance])
    /\ UNCHANGED <<db, rowLock, audit>>

rejectWithdrawal_updateBalance_norefund(p) ==
    /\ pc[p] = "rejectWithdrawal_updateBalance"
    /\ Goto(p, "rejectWithdrawal_updateStatus", loc[p])
    /\ UNCHANGED <<db, rowLock, audit>>

\* rejectWithdrawal: newBalance = user.walletBalance + withdrawal.amount.
rejectWithdrawal_updateBalance(p) ==
    /\ pc[p] = "rejectWithdrawal_updateBalance"
    /\ updateBalance(loc[p].userId, loc[p].walletBalance + loc[p].amount)
    /\ audit' = Expect(Moved(audit, "wdRefund", loc[p].id, loc[p].amount),
                       loc[p].userId, loc[p].amount)
    /\ Goto(p, "rejectWithdrawal_updateStatus", loc[p])
    /\ UNCHANGED <<deposits, withdrawals, bonuses, claims, rowLock>>

\* rejectWithdrawal: withdrawalRepository.updateStatus(id, 'rejected', ..).
rejectWithdrawal_updateStatus(p) ==
    /\ pc[p] = "rejectWithdrawal_updateStatus"
    /\ withdrawals' = [withdrawals EXCEPT ![loc[p].id] =
                          updateStatus(@, "rejected", loc[p].adminId, loc[p].reason)]
    /\ audit' = Succeeded(audit, "wdOk", loc[p].id)
    /\ Return(p, "ok")
    /\ UNCHANGED <<users, deposits, bonuses, claims, rowLock>>

\* =================================================== ReferralBonusService
\* referralBonusRepository.findById: referral_bonuses JOIN users on the
\* referred user; no row when either is missing.
findBonusById(bonusId) ==
    /\ bonusId \in IdsOf(bonuses)
    /\ bonuses[bonusId].referredUserId \in DOMAIN users

hasPendingClaim_anyStatus(bonusId) ==
    \E c \in IdsOf(claims) : claims[c].bonusId = bonusId

\* referralBonusRepository.hasPendingClaim
hasPendingClaim(bonusId) ==
    \E c \in IdsOf(claims) : claims[c].bonusId = bonusId /\ claims[c].status = "pending"

InClaimBonus(q) == pc[q] \in {"claimBonus_hasPendingClaim", "claimBonus_createClaimRequest"}

claimBonus_findById_claimedFirst(p, userId, bonusId) ==
    /\ Start(p)
    /\ Len(claims) + Cardinality({q \in Procs : InClaimBonus(q)}) < MaxClaims
    /\ IF ~findBonusById(bonusId) THEN
           Return(p, "NotFound")
       ELSE IF bonuses[bonusId].isClaimed THEN
           Return(p, "AlreadyClaimed")
       ELSE IF bonuses[bonusId].referrerId # userId THEN
           Return(p, "Forbidden")
       ELSE
           Goto(p, "claimBonus_hasPendingClaim",
                [Loc0 EXCEPT !.id = bonusId, !.userId = userId,
                             !.amount = bonuses[bonusId].bonusAmount])
    /\ UNCHANGED <<db, rowLock, audit>>

claimBonus_findById_depositAmount(p, userId, bonusId) ==
    /\ Start(p)
    /\ Len(claims) + Cardinality({q \in Procs : InClaimBonus(q)}) < MaxClaims
    /\ IF ~findBonusById(bonusId) THEN
           Return(p, "NotFound")
       ELSE IF bonuses[bonusId].referrerId # userId THEN
           Return(p, "Forbidden")
       ELSE IF bonuses[bonusId].isClaimed THEN
           Return(p, "AlreadyClaimed")
       ELSE
           Goto(p, "claimBonus_hasPendingClaim",
                [Loc0 EXCEPT !.id = bonusId, !.userId = userId,
                             !.amount = bonuses[bonusId].depositAmount])
    /\ UNCHANGED <<db, rowLock, audit>>

\* claimBonus, first query: findById(bonusId) and the three guards.
claimBonus_findById(p, userId, bonusId) ==
    /\ Start(p)
    /\ Len(claims) + Cardinality({q \in Procs : InClaimBonus(q)}) < MaxClaims
    /\ IF ~findBonusById(bonusId) THEN
           Return(p, "NotFound")
       ELSE IF bonuses[bonusId].referrerId # userId THEN
           Return(p, "Forbidden")
       ELSE IF bonuses[bonusId].isClaimed THEN
           Return(p, "AlreadyClaimed")
       ELSE
           Goto(p, "claimBonus_hasPendingClaim",
                [Loc0 EXCEPT !.id = bonusId, !.userId = userId,
                             !.amount = bonuses[bonusId].bonusAmount])
    /\ UNCHANGED <<db, rowLock, audit>>

\* INSERT INTO bonus_claim_requests (user_id, bonus_id, amount); status
\* defaults to 'pending'
ClaimRow(userId, bonusId, amount) ==
    [userId |-> userId, bonusId |-> bonusId, amount |-> amount,
     status |-> "pending", processedAt |-> FALSE, processedBy |-> NULL,
     rejectionReason |-> NULL]

claimBonus_hasPendingClaim_inserts(p) ==
    /\ pc[p] = "claimBonus_hasPendingClaim"
    /\ claims' = Append(claims, ClaimRow(loc[p].userId, loc[p].id, loc[p].amount))
    /\ audit' = Grow(<<"clOk", "clCredit">>)
    /\ IF hasPendingClaim(loc[p].id) THEN Return(p, "ClaimPending") ELSE Return(p, "ok")
    /\ UNCHANGED <<users, deposits, withdrawals, bonuses, rowLock>>

\* claimBonus: referralBonusRepository.hasPendingClaim(bonusId).
claimBonus_hasPendingClaim(p) ==
    /\ pc[p] = "claimBonus_hasPendingClaim"
    /\ IF hasPendingClaim(loc[p].id) THEN
           Return(p, "ClaimPending")
       ELSE
           Goto(p, "claimBonus_createClaimRequest", loc[p])
    /\ UNCHANGED <<db, rowLock, audit>>

claimBonus_createClaimRequest_marks(p) ==
    /\ pc[p] = "claimBonus_createClaimRequest"
    /\ claims' = Append(claims, ClaimRow(loc[p].userId, loc[p].id, loc[p].amount))
    /\ bonuses' = [bonuses EXCEPT ![loc[p].id].isClaimed = TRUE]
    /\ audit' = Grow(<<"clOk", "clCredit">>)
    /\ Return(p, "ok")
    /\ UNCHANGED <<users, deposits, withdrawals, rowLock>>

\* claimBonus: referralBonusRepository.createClaimRequest(..); the INSERT
\* fails on a foreign key when the account or the bonus is gone.
claimBonus_createClaimRequest(p) ==
    /\ pc[p] = "claimBonus_createClaimRequest"
    /\ IF loc[p].userId \in DOMAIN users /\ loc[p].id \in IdsOf(bonuses) THEN
           /\ claims' = Append(claims, ClaimRow(loc[p].userId, loc[p].id, loc[p].amount))
           /\ audit' = Grow(<<"clOk", "clCredit">>)
           /\ Return(p, "ok")
       ELSE
           /\ Return(p, "Error")
           /\ UNCHANGED <<claims, audit>>
    /\ UNCHANGED <<users, deposits, withdrawals, bonuses, rowLock>>

\* referralBonusRepository.findClaimById: bonus_claim_requests JOIN users
\* JOIN referral_bonuses JOIN users; no row when any of them is missing.
findClaimById(claimId) ==
    /\ claimId \in IdsOf(claims)
    /\ claims[claimId].userId \in DOMAIN users
    /\ findBonusById(claims[claimId].bonusId)

\* approveClaim, first query: findClaimById and the guards.
approveClaim_findClaimById(p, claimId, adminId) ==
    /\ Start(p)
    /\ IF ~findClaimById(claimId) THEN
           Return(p, "NotFound")
       ELSE IF claims[claimId].status # "pending" THEN
           Return(p, "AlreadyProcessed")
       ELSE
           Goto(p, "approveClaim_findUser",
                [Loc0 EXCEPT !.id = claimId, !.adminId = adminId,
                             !.userId = claims[claimId].userId,
                             !.amount = claims[claimId].amount,
                             !.referredBy = claims[claimId].bonusId])
    /\ UNCHANGED <<db, rowLock, audit>>

\* approveClaim: userRepository.findById(claim.userId), unlocked read.
approveClaim_findUser(p) ==
    /\ pc[p] = "approveClaim_findUser"
    /\ IF loc[p].userId \notin DOMAIN users THEN
           Return(p, "NotFound")
       ELSE
           Goto(p, "approveClaim_updateBalance",
                [loc[p] EXCEPT !.walletBalance = users[loc[p].userId].walletBalance])
    /\ UNCHANGED <<db, rowLock, audit>>

\* approveClaim: newBalance = user.walletBalance + claim.amount.
approveClaim_updateBalance(p) ==
    /\ pc[p] = "approveClaim_updateBalance"
    /\ updateBalance(loc[p].userId, loc[p].walletBalance + loc[p].amount)
    /\ audit' = Expect(Moved(audit, "clCredit", loc[p].id, loc[p].amount),
                       loc[p].userId, loc[p].amount)
    /\ Goto(p, "approveClaim_markAsClaimed", loc[p])
    /\ UNCHANGED <<deposits, withdrawals, bonuses, claims, rowLock>>

\* approveClaim: referralBonusRepository.markAsClaimed(claim.bonusId).
approveClaim_markAsClaimed(p) ==
    /\ pc[p] = "approveClaim_markAsClaimed"
    /\ bonuses' = IF loc[p].referredBy \in IdsOf(bonuses)
                  THEN [bonuses EXCEPT ![loc[p].referredBy].isClaimed = TRUE]
                  ELSE bonuses
    /\ Goto(p, "approveClaim_updateClaimStatus", loc[p])
    /\ UNCHANGED <<users, deposits, withdrawals, claims, rowLock, audit>>

\* approveClaim: updateClaimStatus(claimId, 'approved', adminId, null).
approveClaim_updateClaimStatus(p) ==
    /\ pc[p] = "approveClaim_updateClaimStatus"
    /\ claims' = [claims EXCEPT ![loc[p].id] =
                     updateStatus(@, "approved", loc[p].adminId, NULL)]
    /\ audit' = Succeeded(audit, "clOk", loc[p].id)
    /\ Return(p, "ok")
    /\ UNCHANGED <<users, deposits, withdrawals, bonuses, rowLock>>

\* rejectClaim, first query: findClaimById and the guards.
rejectClaim_findClaimById(p, claimId, adminId, rejectionReason) ==
    /\ Start(p)
    /\ IF ~findClaimById(claimId) THEN
           Return(p, "NotFound")
       ELSE IF claims[claimId].status # "pending" THEN
           Return(p, "AlreadyProcessed")
       ELSE
           Goto(p, "rejectClaim_updateClaimStatus",
                [Loc0 EXCEPT !.id = claimId, !.adminId = adminId,
                             !.reason = rejectionReason])
    /\ UNCHANGED <<db, rowLock, audit>>

\* rejectClaim: updateClaimStatus(claimId, 'rejected', adminId, reason).
rejectClaim_updateClaimStatus(p) ==
    /\ pc[p] = "rejectClaim_updateClaimStatus"
    /\ claims' = [claims EXCEPT ![loc[p].id] =
                     updateStatus(@, "rejected", loc[p].adminId, loc[p].reason)]
    /\ audit' = Succeeded(audit, "clOk", loc[p].id)
    /\ Return(p, "ok")
    /\ UNCHANGED <<users, deposits, withdrawals, bonuses, rowLock>>

\* =========================================================== AdminService
\* The rows DELETE .. WHERE user_id = $1 removes from a request table; on the
\* other rows processed_by = $1 becomes NULL.
deleteRequestsOf(table, userId) ==
    [i \in 1 .. Len(table) |->
        IF table[i] = Gone THEN Gone
        ELSE IF table[i].userId = userId THEN Gone
        ELSE IF table[i].processedBy = userId THEN [table[i] EXCEPT !.processedBy = NULL]
        ELSE table[i]]

\* The referral_bonuses rows ON DELETE CASCADE removes with the account and
\* with its deposit requests.
cascadeBonuses(userId) ==
    [i \in 1 .. Len(bonuses) |->
        IF bonuses[i] = Gone THEN Gone
        ELSE IF \/ bonuses[i].referrerId = userId
                \/ bonuses[i].referredUserId = userId
                \/ bonuses[i].depositId \notin IdsOf(deleteRequestsOf(deposits, userId))
             THEN Gone
        ELSE bonuses[i]]

\* The bonus_claim_requests rows ON DELETE CASCADE removes with the account
\* and with its bonuses.
cascadeClaims(userId) ==
    [i \in 1 .. Len(claims) |->
        IF claims[i] = Gone THEN Gone
        ELSE IF \/ claims[i].userId = userId
                \/ claims[i].bonusId \notin IdsOf(cascadeBonuses(userId))
             THEN Gone
        ELSE claims[i]]

\* A deleteUser on a schema whose bonus and claim tables would not cascade.
deleteUser_noCascade(p, userId) ==
    /\ Start(p)
    /\ IF userId = AdminId THEN
           /\ Return(p, "Forbidden")
           /\ UNCHANGED <<db, rowLock, audit>>
       ELSE IF userId \notin DOMAIN users THEN
           /\ Return(p, "NotFound")
           /\ UNCHANGED <<db, rowLock, audit>>
       ELSE
           /\ rowLockFree(userId)
           /\ deposits' = deleteRequestsOf(deposits, userId)
           /\ withdrawals' = deleteRequestsOf(withdrawals, userId)
           /\ users' = [u \in DOMAIN users \ {userId} |->
                            IF users[u].referredBy = userId
                            THEN [users[u] EXCEPT !.referredBy = NULL]
                            ELSE users[u]]
           /\ Return(p, "ok")
           /\ UNCHANGED <<bonuses, claims, rowLock, audit>>

\* AdminService.deleteUser and AdminSettingsRepository.deleteUser: the only
\* refusals are an unknown id and an admin account; the requests of the
\* account are deleted whatever their status, then the account, in one
\* transaction.  A claim processed by the account keeps its processed_by
\* reference, on which the DELETE of the account fails.
deleteUser(p, userId) ==
    /\ Start(p)
    /\ IF userId = AdminId THEN
           /\ Return(p, "Forbidden")
           /\ UNCHANGED <<db, rowLock, audit>>
       ELSE IF userId \notin DOMAIN users THEN
           /\ Return(p, "NotFound")
           /\ UNCHANGED <<db, rowLock, audit>>
       ELSE IF \E c \in IdsOf(cascadeClaims(userId)) : claims[c].processedBy = userId THEN
           /\ Return(p, "Error")
           /\ UNCHANGED <<db, rowLock, audit>>
       ELSE
           /\ rowLockFree(userId)
           /\ deposits' = deleteRequestsOf(deposits, userId)
           /\ withdrawals' = deleteRequestsOf(withdrawals, userId)
           /\ bonuses' = cascadeBonuses(userId)
           /\ claims' = cascadeClaims(userId)
           /\ users' = [u \in DOMAIN users \ {userId} |->
                            IF users[u].referredBy = userId
                            THEN [users[u] EXCEPT !.referredBy = NULL]
                            ELSE users[u]]
           /\ Return(p, "ok")
           /\ UNCHANGED <<rowLock, audit>>

\* ======================================================= pending queues
Kinds == {"deposits", "withdrawals", "claims"}

TableOf(kind) ==
    CASE kind = "deposits" -> deposits
      [] kind = "withdrawals" -> withdrawals
      [] kind = "claims" -> claims

\* JOIN users u ON <request>.user_id = u.id, and for claims also
\* JOIN referral_bonuses rb, JOIN users ru ON rb.referred_user_id = ru.id.
Joined(kind, i) ==
    /\ TableOf(kind)[i].userId \in DOMAIN users
    /\ kind = "claims" =>
          /\ claims[i].bonusId \in IdsOf(bonuses)
          /\ bonuses[claims[i].bonusId].referredUserId \in DOMAIN users

\* SELECT .. WHERE status = 'pending' ORDER BY created_at ASC LIMIT $1
\* OFFSET $2: the ids of the rows of the page.  created_at is set when the
\* row is inserted, so it grows with the id.
PendingRows(kind, limit, offset) ==
    LET all == SelectSeq([i \in 1 .. Len(TableOf(kind)) |-> i],
                         LAMBDA i : /\ i \in IdsOf(TableOf(kind))
                                    /\ TableOf(kind)[i].status = "pending"
                                    /\ Joined(kind, i))
    IN  IF offset >= Len(all) THEN <<>>
        ELSE SubSeq(all, offset + 1,
                    IF offset + limit < Len(all) THEN offset + limit ELSE Len(all))

\* SELECT COUNT(*) .. WHERE status = 'pending'.
PendingCount(kind) ==
    Cardinality({i \in IdsOf(TableOf(kind)) : TableOf(kind)[i].status = "pending"})

\* findPending / findPendingClaims: Promise.all sends the page query and the
\* count query to the pool together; each is a statement of its own and
\* either may run first.  This is the first of the two.
findPending(p, kind, limit, offset) ==
    /\ Start(p)
    /\ \/ Goto(p, "findPending_countQuery",
                [kind |-> kind, limit |-> limit, offset |-> offset,
                 rows |-> PendingRows(kind, limit, offset), total |-> 0])
       \/ Goto(p, "findPending_query",
                [kind |-> kind, limit |-> limit, offset |-> offset,
                 rows |-> <<>>, total |-> PendingCount(kind)])
    /\ UNCHANGED <<db, rowLock, audit>>

\* The result { rows, total } that getPendingDeposits, getPendingWithdrawals
\* and getPendingClaims hand on.
ReturnPage(p, rows, total) ==
    /\ pc' = [pc EXCEPT ![p] = "idle"]
    /\ loc' = [loc EXCEPT ![p] = Loc0]
    /\ ret' = [proc |-> p, outcome |-> "ok", needed |-> 0,
               kind |-> loc[p].kind, limit |-> loc[p].limit,
               offset |-> loc[p].offset, rows |-> rows, total |-> total]
    /\ calls' = calls

\* findPending: the count query, run second.
findPending_countQuery(p) ==
    /\ pc[p] = "findPending_countQuery"
    /\ ReturnPage(p, loc[p].rows, PendingCount(loc[p].kind))
    /\ UNCHANGED <<db, rowLock, audit>>

\* findPending: the page query, run second.
findPending_query(p) ==
    /\ pc[p] = "findPending_query"
    /\ ReturnPage(p, PendingRows(loc[p].kind, loc[p].limit, loc[p].offset),
                  loc[p].total)
    /\ UNCHANGED <<db, rowLock, audit>>

\* ================================================================= system
Callers == {Referrer, Referred}

DepositNext ==
    \E p \in Procs :
        \/ \E a \in DepositAmounts : createDepositRequest(p, Referrer, a, TRUE)
        \/ createDepositRequest(p, Referred, MIN_DEPOSIT, TRUE)
        \/ createDepositRequest(p, Referrer, PendingDepositAmount, FALSE)
        \/ \E d \in CallIds(deposits) : approveDeposit_findById(p, d, AdminId)
        \/ approveDeposit_findUser(p)
        \/ approveDeposit_updateBalance(p)
        \/ approveDeposit_updateStatus(p)
        \/ createBonusForDeposit_findUser(p)
        \/ createBonusForDeposit_create(p)
        \/ createBonusForDeposit_throw(p)
        \/ \E d \in CallIds(deposits), r \in Reasons :
              rejectDeposit_findById(p, d, AdminId, r)
        \/ rejectDeposit_updateStatus(p)

CreateWithdrawalNext ==
    \E p \in Procs :
        \/ \E u \in Callers, a \in WithdrawAmounts :
              createWithdrawalRequest_validate(p, u, a, ValidUpi)
        \/ \E b \in BankDetailsInputs :
              createWithdrawalRequest_validate(p, Referrer, 20000, b)
        \/ createWithdrawalRequest_lock(p)
        \/ createWithdrawalRequest_commit(p)

ProcessWithdrawalNext ==
    \E p \in Procs :
        \/ \E w \in CallIds(withdrawals) : confirmWithdrawal_findById(p, w, AdminId)
        \/ confirmWithdrawal_updateStatus(p)
        \/ \E w \in CallIds(withdrawals) :
              rejectWithdrawal_findById(p, w, AdminId, NULL)
        \/ rejectWithdrawal_findUser(p)
        \/ rejectWithdrawal_updateBalance(p)
        \/ rejectWithdrawal_updateStatus(p)

BonusNext ==
    \E p \in Procs :
        \/ \E u \in Callers, b \in CallIds(bonuses) : claimBonus_findById(p, u, b)
        \/ claimBonus_hasPendingClaim(p)
        \/ claimBonus_createClaimRequest(p)
        \/ \E c \in CallIds(claims) : approveClaim_findClaimById(p, c, AdminId)
        \/ approveClaim_findUser(p)
        \/ approveClaim_updateBalance(p)
        \/ approveClaim_markAsClaimed(p)
        \/ approveClaim_updateClaimStatus(p)
        \/ \E c \in CallIds(claims) :
              rejectClaim_findClaimById(p, c, AdminId, NULL)
        \/ rejectClaim_updateClaimStatus(p)

Next == DepositNext \/ CreateWithdrawalNext \/ ProcessWithdrawalNext \/ BonusNext

Spec == Init /\ [][Next]_vars

\* Callers that only create withdrawal requests.
SpecCreateWithdrawal == Init /\ [][CreateWithdrawalNext]_vars

\* createBonusForDeposit on its own, for deposit amounts around the multiples
\* of 20 and for an account with a referrer, one without and a missing one.
BonusDepositAmounts == {0, 1, 19, 20, 39, 40, 99, 50000}

CreateBonusNext ==
    \E p \in Procs :
        \/ \E u \in {Referrer, Referred, UnknownId}, a \in BonusDepositAmounts :
              createBonusForDeposit(p, u, Len(InitDeposits), a)
        \/ createBonusForDeposit_findUser(p)
        \/ createBonusForDeposit_create(p)

SpecCreateBonus == Init /\ [][CreateBonusNext]_vars

\* The referrer has only four referred accounts with an approved deposit:
\* the deposits of the fifth and of the sixth referred account are waiting
\* for approval.
FourReferralsDeposits ==
    <<OldDeposit(Referrer, InitialBalance)>> \o
    [i \in 1 .. 4 |-> OldDeposit(i + 2, OldDepositAmount)] \o
    <<DepositRow(7, OldDepositAmount), DepositRow(Referred, PendingDepositAmount)>>

FourReferralsUsers == [InitUsers EXCEPT ![7].walletBalance = 0]

InitFourReferrals ==
    /\ users = FourReferralsUsers
    /\ deposits = FourReferralsDeposits
    /\ withdrawals = <<>>
    /\ bonuses = <<BonusRow(Referrer, 6, 5, OldDepositAmount,
                            bonusAmountOf(OldDepositAmount))>>
    /\ claims = <<>>
    /\ rowLock = [u \in DOMAIN InitUsers |-> NoProc]
    /\ pc = [p \in Procs |-> "idle"]
    /\ loc = [p \in Procs |-> Loc0]
    /\ ret = NoReturn
    /\ calls = 0
    /\ audit = [depOk |-> [i \in 1 .. 7 |-> IF i < 6 THEN 1 ELSE 0],
                depCredit |-> [i \in 1 .. 7 |->
                                  IF i < 6 THEN FourReferralsDeposits[i].amount ELSE 0],
                wdOk |-> <<>>, wdRefund |-> <<>>,
                clOk |-> <<>>, clCredit |-> <<>>,
                expected |-> [u \in DOMAIN InitUsers |->
                                 FourReferralsUsers[u].walletBalance]]

\* Deposits are approved and withdrawals are requested.
ApproveDepositNext ==
    \E p \in Procs :
        \/ \E d \in CallIds(deposits) : approveDeposit_findById(p, d, AdminId)
        \/ approveDeposit_findUser(p)
        \/ approveDeposit_updateBalance(p)
        \/ approveDeposit_updateStatus(p)
        \/ createBonusForDeposit_findUser(p)
        \/ createBonusForDeposit_create(p)

SpecFourReferrals == InitFourReferrals /\ [][ApproveDepositNext \/ CreateWithdrawalNext]_vars

\* A query that follows the balance write of approveDeposit, rejectWithdrawal
\* or approveClaim fails: the method runs ROLLBACK on its client, on which no
\* statement ran, and throws; the statements sent through the pool stay
\* committed.
approveDeposit_updateStatus_throw(p) ==
    /\ pc[p] = "approveDeposit_updateStatus"
    /\ Return(p, "Error")
    /\ UNCHANGED <<db, rowLock, audit>>

rejectWithdrawal_updateStatus_throw(p) ==
    /\ pc[p] = "rejectWithdrawal_updateStatus"
    /\ Return(p, "Error")
    /\ UNCHANGED <<db, rowLock, audit>>

approveClaim_throw(p) ==
    /\ pc[p] \in {"approveClaim_markAsClaimed", "approveClaim_updateClaimStatus"}
    /\ Return(p, "Error")
    /\ UNCHANGED <<db, rowLock, audit>>

FailNext ==
    \E p \in Procs :
        \/ approveDeposit_updateStatus_throw(p)
        \/ rejectWithdrawal_updateStatus_throw(p)
        \/ approveClaim_throw(p)

SpecFailures == Init /\ [][Next \/ FailNext]_vars

\* What a call in progress does next: its awaited query returns and the
\* method goes on.  A query that needs the account row waits for the lock.
Continue(p) ==
    \/ approveDeposit_findUser(p)
    \/ approveDeposit_updateBalance(p)
    \/ approveDeposit_updateStatus(p)
    \/ createBonusForDeposit_findUser(p)
    \/ createBonusForDeposit_create(p)
    \/ rejectDeposit_updateStatus(p)
    \/ createWithdrawalRequest_lock(p)
    \/ createWithdrawalRequest_commit(p)
    \/ confirmWithdrawal_updateStatus(p)
    \/ rejectWithdrawal_findUser(p)
    \/ rejectWithdrawal_updateBalance(p)
    \/ rejectWithdrawal_updateStatus(p)
    \/ claimBonus_hasPendingClaim(p)
    \/ claimBonus_createClaimRequest(p)
    \/ approveClaim_findUser(p)
    \/ approveClaim_updateBalance(p)
    \/ approveClaim_markAsClaimed(p)
    \/ approveClaim_updateClaimStatus(p)
    \/ rejectClaim_updateClaimStatus(p)

\* The event loop and the database go on with every call whose next query
\* can run.
SpecFair == Init /\ [][Next]_vars /\ \A p \in Procs : WF_vars(Continue(p))

\* createWithdrawalRequest with every combination of caller, amount and
\* bank details that pass or fail validateBankDetails.
NoBankDetails ==
    [isObject |-> FALSE, upiId |-> "absent", accountNumber |-> "absent", ifscCode |-> "absent"]

CheckOrderInputs == Callers \X WithdrawAmounts \X {ValidUpi, NoBankDetails}

CheckOrderNext ==
    \E p \in Procs :
        \/ \E i \in CheckOrderInputs :
              createWithdrawalRequest_validate(p, i[1], i[2], i[3])
        \/ createWithdrawalRequest_lock(p)
        \/ createWithdrawalRequest_commit(p)

SpecCheckOrder == InitFourReferrals /\ [][ApproveDepositNext \/ CheckOrderNext]_vars

DeleteUserNext ==
    \E p \in Procs, u \in {Referrer, Referred, AdminId} : deleteUser(p, u)

SpecDeleteUser == Init /\ [][Next \/ DeleteUserNext]_vars

\* The calls run one after another: a call starts only when no other call is
\* in progress.
\* The processing methods called by two administrators, with and without a
\* rejection reason, on the pending deposit, on a withdrawal request of the
\* referrer and on a claim of the referrer's bonus.
SecondAdminId == 9
Admins == {AdminId, SecondAdminId}

ProcessNext ==
    \E p \in Procs :
        \/ \E a \in Admins : approveDeposit_findById(p, Len(InitDeposits), a)
        \/ approveDeposit_findUser(p)
        \/ approveDeposit_updateBalance(p)
        \/ approveDeposit_updateStatus(p)
        \/ createBonusForDeposit_findUser(p)
        \/ createBonusForDeposit_create(p)
        \/ createBonusForDeposit_throw(p)
        \/ \E a \in Admins, r \in Reasons :
              rejectDeposit_findById(p, Len(InitDeposits), a, r)
        \/ rejectDeposit_updateStatus(p)
        \/ createWithdrawalRequest_validate(p, Referrer, 20000, ValidUpi)
        \/ createWithdrawalRequest_lock(p)
        \/ createWithdrawalRequest_commit(p)
        \/ \E w \in IdsOf(withdrawals), a \in Admins : confirmWithdrawal_findById(p, w, a)
        \/ confirmWithdrawal_updateStatus(p)
        \/ \E w \in IdsOf(withdrawals), a \in Admins, r \in Reasons :
              rejectWithdrawal_findById(p, w, a, r)
        \/ rejectWithdrawal_findUser(p)
        \/ rejectWithdrawal_updateBalance(p)
        \/ rejectWithdrawal_updateStatus(p)
        \/ claimBonus_findById(p, Referrer, 1)
        \/ claimBonus_hasPendingClaim(p)
        \/ claimBonus_createClaimRequest(p)
        \/ \E c \in IdsOf(claims), a \in Admins : approveClaim_findClaimById(p, c, a)
        \/ approveClaim_findUser(p)
        \/ approveClaim_updateBalance(p)
        \/ approveClaim_markAsClaimed(p)
        \/ approveClaim_updateClaimStatus(p)
        \/ \E c \in IdsOf(claims), a \in Admins, r \in Reasons :
              rejectClaim_findClaimById(p, c, a, r)
        \/ rejectClaim_updateClaimStatus(p)

SpecTwoAdmins == Init /\ [][ProcessNext]_vars

\* The pending queues read while requests are created and processed:
\* getPending*(page 1, limit 20) and getPendingCount, which asks for the
\* page (1, 1) or (1, 0).
PageInputs == {<<20, 0>>, <<1, 0>>, <<1, 1>>}

PendingNext ==
    \E p \in Procs :
        \/ \E kind \in Kinds, page \in PageInputs :
              findPending(p, kind, page[1], page[2])
        \/ findPending_countQuery(p)
        \/ findPending_query(p)
        \/ createDepositRequest(p, Referrer, PendingDepositAmount, TRUE)
        \/ approveDeposit_findById(p, Len(InitDeposits), AdminId)
        \/ approveDeposit_findUser(p)
        \/ approveDeposit_updateBalance(p)
        \/ approveDeposit_updateStatus(p)
        \/ createBonusForDeposit_findUser(p)
        \/ createBonusForDeposit_create(p)
        \/ createBonusForDeposit_throw(p)
        \/ rejectDeposit_findById(p, Len(InitDeposits), AdminId, SomeReason)
        \/ rejectDeposit_updateStatus(p)
        \/ createWithdrawalRequest_validate(p, Referrer, 20000, ValidUpi)
        \/ createWithdrawalRequest_lock(p)
        \/ createWithdrawalRequest_commit(p)
        \/ \E w \in IdsOf(withdrawals) : confirmWithdrawal_findById(p, w, AdminId)
        \/ confirmWithdrawal_updateStatus(p)
        \/ claimBonus_findById(p, Referrer, 1)
        \/ claimBonus_hasPendingClaim(p)
        \/ claimBonus_createClaimRequest(p)
        \/ \E c \in IdsOf(claims) : rejectClaim_findClaimById(p, c, AdminId, NULL)
        \/ rejectClaim_updateClaimStatus(p)

SpecPending == Init /\ [][PendingNext]_vars

Sequential == Cardinality({p \in Procs : pc[p] # "idle"}) <= 1

NextSequential == Next /\ Sequential'

SpecSequential == Init /\ [][NextSequential]_vars

\* =================================================================== claims
\* C1: every account's balance is non-negative in every reachable state,
\* whatever calls of the nine operations are made and however their queries
\* interleave.
C1_BalanceNonNegative ==
    \A u \in DOMAIN users : users[u].walletBalance >= 0

\* C1 witness: two withdrawals were created and took the whole balance.
C1_Witness ==
    /\ Len(withdrawals) = 2
    /\ users[Referrer].walletBalance = 0

\* --------------------------------------------------------------- ledgers
Quiescent == \A p \in Procs : pc[p] = "idle"

SumWhere(table, Keep(_)) ==
    SumSeq([i \in 1 .. Len(table) |-> IF Keep(table[i]) THEN table[i].amount ELSE 0])

ApprovedDeposits(u) ==
    SumWhere(deposits, LAMBDA r : r.userId = u /\ r.status = "approved")
ReservedWithdrawals(u) ==
    SumWhere(withdrawals, LAMBDA r : r.userId = u)
RefundedWithdrawals(u) ==
    SumWhere(withdrawals, LAMBDA r : r.userId = u /\ r.status = "rejected")
ApprovedClaims(u) ==
    SumWhere(claims, LAMBDA r : r.userId = u /\ r.status = "approved")

NewDeposits == (Len(InitDeposits) .. Len(deposits))

\* C2: for every account, approved deposits minus the withdrawals that
\* reserved funds plus the refunds of the rejected ones plus the approved
\* bonus claims equal the balance.  A rejected withdrawal reserved its amount
\* when it was created and got it back, so it counts on both sides; the
\* equation is stated for the states in which no call is in progress.
C2_Ledger ==
    Quiescent =>
        \A u \in DOMAIN users :
            users[u].walletBalance =
                ApprovedDeposits(u) - ReservedWithdrawals(u)
                + RefundedWithdrawals(u) + ApprovedClaims(u)

\* C3: of the approve and reject calls on one deposit at most one succeeds,
\* and the account is credited with the deposit's amount at most once.
C3_DepositProcessedOnce ==
    \A d \in NewDeposits :
        /\ audit.depOk[d] <= 1
        /\ audit.depCredit[d] <= deposits[d].amount

\* C4: of the confirm and reject calls on one withdrawal exactly one
\* succeeds; a second one never succeeds.
C4_WithdrawalProcessedOnce ==
    \A w \in IdsOf(withdrawals) : audit.wdOk[w] <= 1

\* C5: the amount refunded for a withdrawal is its amount if it ends
\* rejected and zero if it ends completed, and never more than its amount.
C5_RefundExact ==
    \A w \in IdsOf(withdrawals) :
        /\ audit.wdRefund[w] <= withdrawals[w].amount
        /\ (Quiescent /\ withdrawals[w].status = "completed") => audit.wdRefund[w] = 0
        /\ (Quiescent /\ withdrawals[w].status = "rejected") =>
              audit.wdRefund[w] = withdrawals[w].amount

\* C6: of the approve and reject calls on one bonus claim at most one
\* succeeds, and the referrer is credited with claim.amount at most once.
C6_ClaimProcessedOnce ==
    \A c \in IdsOf(claims) :
        /\ audit.clOk[c] <= 1
        /\ audit.clCredit[c] <= claims[c].amount

\* C7: concurrent createWithdrawalRequest calls are serialized by the row
\* lock: the amounts of the calls that succeed never exceed the balance
\* before them, a call that holds the lock still sees the balance it read,
\* a call fails with InsufficientFunds only when the balance is below an
\* amount asked for, and of two withdrawals of 30,000 against 50,000 only one
\* is created, leaving 20,000, while the other fails with InsufficientFunds.
C7_WithdrawalsSerialized ==
    /\ ReservedWithdrawals(Referrer) <= InitialBalance
    /\ users[Referrer].walletBalance = InitialBalance - ReservedWithdrawals(Referrer)
    /\ \A p \in Procs :
          pc[p] = "createWithdrawalRequest_commit" =>
              /\ users[loc[p].userId].walletBalance = loc[p].walletBalance
              /\ loc[p].amount <= users[loc[p].userId].walletBalance
    /\ Cardinality({w \in IdsOf(withdrawals) : withdrawals[w].amount = 30000}) <= 1
    /\ ret.outcome = "InsufficientFunds" =>
          \E a \in WithdrawAmounts : a > users[Referrer].walletBalance
    /\ (ret.outcome = "InsufficientFunds" /\ Len(withdrawals) = 1
            /\ withdrawals[1].amount = 30000) =>
          users[Referrer].walletBalance = 20000

\* C7 witness: one withdrawal of 30,000 was created, the balance is 20,000
\* and the other call has just failed with InsufficientFunds.
C7_Witness ==
    /\ Len(withdrawals) = 1
    /\ withdrawals[1].amount = 30000
    /\ users[Referrer].walletBalance = 20000
    /\ ret.outcome = "InsufficientFunds"
    /\ calls = 2

\* C8: when the calls that change one account's balance have all returned,
\* the balance is the initial balance plus the amounts those calls added or
\* took: no update is lost.
C8_NoLostUpdate ==
    Quiescent => \A u \in DOMAIN users : users[u].walletBalance = audit.expected[u]

\* C9: createWithdrawalRequest is all-or-nothing: the step in which it
\* succeeds takes exactly the amount from the account and adds exactly one
\* pending request of that amount; every other step of it, and every step in
\* which it fails, leaves all balances and requests as they are.
C9_CreateWithdrawalAllOrNothing ==
    [][\A p \in Procs :
          /\ (InCreateWithdrawal(p) /\ pc'[p] = "idle" /\ ret'.outcome = "ok") =>
                /\ users' = [users EXCEPT ![loc[p].userId].walletBalance =
                                             @ - loc[p].amount]
                /\ withdrawals' = Append(withdrawals,
                                         WithdrawalRow(loc[p].userId, loc[p].amount))
          /\ (InCreateWithdrawal(p) /\ pc'[p] # pc[p] /\ ret'.outcome # "ok") =>
                /\ users' = users
                /\ withdrawals' = withdrawals
          /\ (pc[p] = "idle" /\ (InCreateWithdrawal(p))' ) =>
                /\ users' = users
                /\ withdrawals' = withdrawals
          /\ (pc[p] = "idle" /\ ret'.proc = p
                /\ ret'.outcome \in {"ValidationError", "EligibilityNotMet",
                                     "InvalidBankDetails"}) =>
                /\ users' = users
                /\ withdrawals' = withdrawals
      ]_vars

\* C9 witness: the only call made so far created a withdrawal request.
C9_Witness ==
    /\ calls = 1
    /\ ret.outcome = "ok"
    /\ Len(withdrawals) = 1
    /\ withdrawals[1].status = "pending"
    /\ users[Referrer].walletBalance = InitialBalance - withdrawals[1].amount

\* C10: the step in which confirmWithdrawal succeeds sets the request's
\* status to completed and changes no account's balance.
C10_ConfirmKeepsBalances ==
    [][\A p \in Procs :
          (pc[p] = "confirmWithdrawal_updateStatus" /\ pc'[p] = "idle") =>
              /\ withdrawals'[loc[p].id].status = "completed"
              /\ users' = users
      ]_vars

\* C10 witness: a withdrawal was confirmed; the balance is still the one
\* its creation left.
C10_Witness ==
    /\ calls = 2
    /\ Len(withdrawals) = 1
    /\ withdrawals[1].status = "completed"
    /\ ret.outcome = "ok"
    /\ users[Referrer].walletBalance = InitialBalance - withdrawals[1].amount

\* C11: with the calls run one after another, rejectWithdrawal on a pending
\* withdrawal adds exactly the request's amount to the owner's balance, sets
\* the status to rejected and returns the balance that is stored; a
\* withdrawal of 20,000 from 50,000 leaves 30,000 and its rejection gives
\* 50,000 again.
C11_RejectWithdrawalRefunds ==
    [][\A p \in Procs :
          /\ (pc[p] = "rejectWithdrawal_updateBalance" /\ pc'[p] # pc[p]) =>
                users' = [users EXCEPT ![withdrawals[loc[p].id].userId].walletBalance =
                                             @ + withdrawals[loc[p].id].amount]
          /\ (pc[p] = "rejectWithdrawal_updateStatus" /\ pc'[p] = "idle") =>
                /\ ret'.outcome = "ok"
                /\ withdrawals[loc[p].id].status = "pending"
                /\ withdrawals'[loc[p].id].status = "rejected"
                /\ users' = users
                /\ users'[withdrawals[loc[p].id].userId].walletBalance =
                       loc[p].walletBalance + loc[p].amount
          /\ (calls' = 1 /\ Len(withdrawals') = 1 /\ withdrawals'[1].amount = 20000) =>
                users'[Referrer].walletBalance = 30000
          /\ (calls' = 2 /\ Len(withdrawals') = 1 /\ withdrawals'[1].amount = 20000
                 /\ withdrawals'[1].status = "rejected") =>
                users'[Referrer].walletBalance = 50000
      ]_vars

\* C11 witness: a withdrawal of 20,000 was created and then rejected, and
\* the balance is 50,000 again.
C11_Witness ==
    /\ calls = 2
    /\ Len(withdrawals) = 1
    /\ withdrawals[1].amount = 20000
    /\ withdrawals[1].status = "rejected"
    /\ ret.outcome = "ok"
    /\ users[Referrer].walletBalance = 50000

\* The caller is inside createBonusForDeposit, called by approveDeposit.
InBonusEngine(p) ==
    pc[p] \in {"createBonusForDeposit_findUser", "createBonusForDeposit_create"}

\* C12: with the calls run one after another, approveDeposit on a pending
\* deposit adds exactly the deposit's amount to the owner's balance, sets the
\* status to approved with processedBy = adminId and processedAt set, and
\* returns the balance that is stored; the deposit of 50,000 of the account
\* with balance 0 gives balance 50,000.
C12_ApproveDepositCredits ==
    [][\A p \in Procs :
          /\ (pc[p] = "approveDeposit_updateBalance" /\ pc'[p] # pc[p]) =>
                /\ deposits[loc[p].id].status = "pending"
                /\ users' = [users EXCEPT ![deposits[loc[p].id].userId].walletBalance =
                                             @ + deposits[loc[p].id].amount]
          /\ (pc[p] = "approveDeposit_updateStatus" /\ pc'[p] # pc[p]) =>
                /\ deposits'[loc[p].id].status = "approved"
                /\ deposits'[loc[p].id].processedBy = loc[p].adminId
                /\ deposits'[loc[p].id].processedAt
                /\ users' = users
          /\ (InBonusEngine(p) /\ pc'[p] = "idle") =>
                /\ ret'.outcome = "ok"
                /\ users' = users
                /\ deposits' = deposits
                /\ deposits[loc[p].id].status = "approved"
                /\ users[deposits[loc[p].id].userId].walletBalance =
                       loc[p].walletBalance + loc[p].amount
          /\ (calls' = 1 /\ deposits'[Len(InitDeposits)].status = "approved") =>
                users'[Referred].walletBalance = 50000
      ]_vars

\* C12 witness: the only call made approved the deposit of 50,000 of the
\* account that had balance 0.
C12_Witness ==
    /\ calls = 1
    /\ ret.outcome = "ok"
    /\ deposits[Len(InitDeposits)].status = "approved"
    /\ deposits[Len(InitDeposits)].processedBy = AdminId
    /\ users[Referred].walletBalance = 50000

\* C13: a call of approveDeposit, rejectDeposit, confirmWithdrawal,
\* rejectWithdrawal, approveClaim or rejectClaim that is made when the request
\* already has a terminal status fails with AlreadyProcessed in its first
\* step and changes no balance, request or bonus; a call goes past its first
\* step only for a request it found pending.
C13_TerminalIsFinal ==
    [][\A p \in Procs :
          /\ (pc[p] = "idle" /\ ret'.proc = p /\ calls' # calls) =>
              /\ \A d \in IdsOf(deposits) :
                    (/\ deposits[d].status # "pending"
                     /\ \/ approveDeposit_findById(p, d, AdminId)
                        \/ \E r \in Reasons : rejectDeposit_findById(p, d, AdminId, r)) =>
                        (ret'.outcome = "AlreadyProcessed" /\ pc'[p] = "idle" /\ db' = db)
              /\ \A w \in IdsOf(withdrawals) :
                    (/\ withdrawals[w].status # "pending"
                     /\ \/ confirmWithdrawal_findById(p, w, AdminId)
                        \/ rejectWithdrawal_findById(p, w, AdminId, NULL)) =>
                        (ret'.outcome = "AlreadyProcessed" /\ pc'[p] = "idle" /\ db' = db)
              /\ \A c \in IdsOf(claims) :
                    (/\ claims[c].status # "pending"
                     /\ \/ approveClaim_findClaimById(p, c, AdminId)
                        \/ rejectClaim_findClaimById(p, c, AdminId, NULL)) =>
                        (ret'.outcome = "AlreadyProcessed" /\ pc'[p] = "idle" /\ db' = db)
          /\ (pc[p] = "idle" /\ pc'[p] \in {"approveDeposit_findUser",
                                             "rejectDeposit_updateStatus"}) =>
                deposits[loc'[p].id].status = "pending"
          /\ (pc[p] = "idle" /\ pc'[p] \in {"confirmWithdrawal_updateStatus",
                                             "rejectWithdrawal_findUser"}) =>
                withdrawals[loc'[p].id].status = "pending"
          /\ (pc[p] = "idle" /\ pc'[p] \in {"approveClaim_findUser",
                                             "rejectClaim_updateClaimStatus"}) =>
                claims[loc'[p].id].status = "pending"
          /\ ret'.outcome = "AlreadyProcessed" => db' = db
      ]_vars

\* C13 witness: a bonus claim was made and rejected, and the third call, on
\* that claim, failed with AlreadyProcessed.
C13_Witness ==
    /\ calls = 3
    /\ Len(claims) = 1
    /\ claims[1].status = "rejected"
    /\ deposits[Len(InitDeposits)].status = "pending"
    /\ Len(withdrawals) = 0
    /\ ret.outcome = "AlreadyProcessed"
    /\ audit.clOk[1] = 1

\* C14: the status of a deposit, withdrawal or bonus-claim request changes
\* only from pending to a terminal status; once a terminal status is written
\* it never changes again, however the approver calls interleave.
C14_StatusWrittenOnce ==
    [][/\ \A d \in IdsOf(deposits) :
             deposits[d].status # "pending" => deposits'[d].status = deposits[d].status
       /\ \A w \in IdsOf(withdrawals) :
             withdrawals[w].status # "pending" =>
                 withdrawals'[w].status = withdrawals[w].status
       /\ \A c \in IdsOf(claims) :
             claims[c].status # "pending" => claims'[c].status = claims[c].status
      ]_vars

\* C15: rejectDeposit on a deposit it found pending sets the status to
\* rejected and records the approver and the reason given (or none); no step
\* of it changes an account's balance or creates a referral bonus.
C15_RejectDepositFrame ==
    [][\A p \in Procs :
          /\ (pc[p] = "idle" /\ pc'[p] = "rejectDeposit_updateStatus") => db' = db
          /\ (pc[p] = "rejectDeposit_updateStatus" /\ pc'[p] = "idle") =>
                /\ ret'.outcome = "ok"
                /\ deposits'[loc[p].id].status = "rejected"
                /\ deposits'[loc[p].id].processedBy = loc[p].adminId
                /\ deposits'[loc[p].id].processedAt
                /\ deposits'[loc[p].id].rejectionReason = loc[p].reason
                /\ \A d \in IdsOf(deposits) \ {loc[p].id} : deposits'[d] = deposits[d]
                /\ Len(deposits') = Len(deposits)
                /\ users' = users
                /\ bonuses' = bonuses
                /\ withdrawals' = withdrawals
                /\ claims' = claims
      ]_vars

\* C15 witness: the only call made rejected the pending deposit with a
\* reason; the depositor's balance is still 0 and no bonus was added.
C15_Witness ==
    /\ calls = 1
    /\ ret.outcome = "ok"
    /\ deposits[Len(InitDeposits)].status = "rejected"
    /\ deposits[Len(InitDeposits)].processedBy = AdminId
    /\ deposits[Len(InitDeposits)].rejectionReason = SomeReason
    /\ users[Referred].walletBalance = 0
    /\ bonuses = InitBonuses

\* C16: createDepositRequest succeeds only for an amount of at least 100;
\* when it succeeds it adds one deposit request with status pending and
\* changes no balance, and when it fails it adds nothing.
C16_CreateDepositValidated ==
    [][/\ \A p \in Procs :
          (pc[p] = "idle" /\ ret'.proc = p /\ calls' # calls) =>
          \A u \in Callers, a \in DepositAmounts \cup {100}, f \in BOOLEAN :
             createDepositRequest(p, u, a, f) =>
                 /\ ret'.outcome = "ok" =>
                       /\ a >= 100
                       /\ deposits' = Append(deposits,
                              [userId |-> u, amount |-> a, status |-> "pending",
                               processedAt |-> FALSE, processedBy |-> NULL,
                               rejectionReason |-> NULL])
                 /\ ret'.outcome # "ok" => deposits' = deposits
                 /\ a < 100 => ret'.outcome # "ok"
                 /\ <<users, withdrawals, bonuses, claims>>' =
                       <<users, withdrawals, bonuses, claims>>
       /\ Len(deposits') # Len(deposits) =>
             /\ Len(deposits') = Len(deposits) + 1
             /\ deposits'[Len(deposits')].status = "pending"
             /\ deposits'[Len(deposits')].amount >= 100
             /\ \A d \in IdsOf(deposits) : deposits'[d] = deposits[d]
             /\ users' = users
      ]_vars

\* C16 witness: the only call made created a deposit request of exactly 100,
\* which is pending, and every balance is as it was.
C16_Witness ==
    /\ calls = 1
    /\ ret.outcome = "ok"
    /\ Len(deposits) = Len(InitDeposits) + 1
    /\ deposits[Len(deposits)].amount = 100
    /\ deposits[Len(deposits)].status = "pending"
    /\ users = InitUsers

\* C17: createBonusForDeposit adds an unclaimed bonus for the depositor's
\* referrer exactly when the depositor exists, has a referrer and the deposit
\* amount divided by 20 (rounded down) is positive, and then the bonus amount
\* is that quotient; a deposit of 50,000 gives a bonus of 2,500, and a
\* deposit below 20 or an account without referrer gives no bonus.
C17_BonusIsFivePercent ==
    [][\A p \in Procs :
          /\ (InBonusEngine(p) /\ pc'[p] = "idle") =>
                LET u == loc[p].userId
                    a == loc[p].amount
                IN  IF u \in DOMAIN users /\ users[u].referredBy # NULL /\ a \div 20 > 0
                    THEN bonuses' = Append(bonuses,
                             [referrerId |-> users[u].referredBy, referredUserId |-> u,
                              depositId |-> loc[p].id, depositAmount |-> a,
                              bonusAmount |-> a \div 20, isClaimed |-> FALSE])
                    ELSE bonuses' = bonuses
          /\ (InBonusEngine(p) /\ pc'[p] \notin {"idle", pc[p]}) => bonuses' = bonuses
          /\ \A b \in IdsOf(bonuses') :
                /\ bonuses'[b].depositAmount = 50000 => bonuses'[b].bonusAmount = 2500
                /\ bonuses'[b].bonusAmount > 0
                /\ bonuses'[b].depositAmount >= 20
                /\ bonuses'[b].referrerId = Referrer
      ]_vars

\* C17 witness: three calls were made; only the one for the deposit of
\* 50,000 of the referred account added a bonus, of 2,500.
C17_Witness ==
    /\ calls = 3
    /\ Quiescent
    /\ Len(bonuses) = Len(InitBonuses) + 1
    /\ bonuses[Len(bonuses)].depositAmount = 50000
    /\ bonuses[Len(bonuses)].bonusAmount = 2500
    /\ bonuses[Len(bonuses)].referrerId = Referrer
    /\ ~bonuses[Len(bonuses)].isClaimed

\* C18: in every reachable state there is at most one referral bonus per
\* source deposit, however the approval calls on that deposit interleave.
C18_OneBonusPerDeposit ==
    \A b1, b2 \in IdsOf(bonuses) :
        bonuses[b1].depositId = bonuses[b2].depositId => b1 = b2

\* C19: when createBonusForDeposit fails inside approveDeposit, the approval
\* is not rolled back: approveDeposit returns successfully, the depositor's
\* balance stays credited with the amount, the deposit stays approved, and
\* there is no bonus for that deposit.
C19_BonusFailureKeepsApproval ==
    [][\A p \in Procs :
          /\ (InBonusEngine(p) /\ pc'[p] = "idle") =>
                /\ ret'.outcome = "ok"
                /\ deposits'[loc[p].id].status = "approved"
                /\ deposits'[loc[p].id].processedBy = loc[p].adminId
                /\ users'[loc[p].userId].walletBalance =
                       loc[p].walletBalance + loc[p].amount
          /\ createBonusForDeposit_throw(p) =>
                /\ ret'.outcome = "ok"
                /\ users' = users
                /\ deposits' = deposits
                /\ bonuses' = bonuses
                /\ \A b \in IdsOf(bonuses') : bonuses'[b].depositId # loc[p].id
      ]_vars

\* C19 witness: the only call made approved the deposit of 50,000 of the
\* referred account; the balance is credited, yet no bonus was added, which
\* for this deposit happens only when createBonusForDeposit fails.
C19_Witness ==
    /\ calls = 1
    /\ ret.outcome = "ok"
    /\ deposits[Len(InitDeposits)].status = "approved"
    /\ users[Referred].walletBalance = PendingDepositAmount
    /\ users[Referred].referredBy = Referrer
    /\ bonusAmountOf(PendingDepositAmount) > 0
    /\ bonuses = InitBonuses

\* C20: in every reachable state every bonus has at most one claim request
\* with status pending, also when claimBonus calls for one bonus interleave.
C20_OnePendingClaimPerBonus ==
    \A c1, c2 \in IdsOf(claims) :
        (/\ claims[c1].bonusId = claims[c2].bonusId
         /\ claims[c1].status = "pending"
         /\ claims[c2].status = "pending") => c1 = c2

\* C21: with the calls run one after another, a claimBonus call on a bonus
\* that has a pending claim fails with ClaimPending and inserts nothing;
\* once that claim is rejected, a new claimBonus call by the owner on the
\* same bonus passes every check and inserts a new pending claim.
C21_ClaimAgainAfterReject ==
    [][\A p \in Procs :
          /\ (pc[p] = "claimBonus_hasPendingClaim" /\ pc'[p] # pc[p]) =>
                /\ db' = db
                /\ IF \E c \in IdsOf(claims) :
                          claims[c].bonusId = loc[p].id /\ claims[c].status = "pending"
                   THEN pc'[p] = "idle" /\ ret'.outcome = "ClaimPending"
                   ELSE pc'[p] = "claimBonus_createClaimRequest"
          /\ \A b \in IdsOf(bonuses) :
                (/\ claimBonus_findById(p, bonuses[b].referrerId, b)
                 /\ \E c \in IdsOf(claims) : claims[c].bonusId = b
                 /\ \A c \in IdsOf(claims) :
                       claims[c].bonusId = b => claims[c].status = "rejected") =>
                    pc'[p] = "claimBonus_hasPendingClaim"
          /\ (pc[p] = "claimBonus_createClaimRequest" /\ pc'[p] # pc[p]) =>
                /\ ret'.outcome = "ok"
                /\ Len(claims') = Len(claims) + 1
                /\ claims'[Len(claims')].bonusId = loc[p].id
                /\ claims'[Len(claims')].status = "pending"
                /\ \A c \in IdsOf(claims) : claims'[c] = claims[c]
      ]_vars

\* C21 witness: the bonus was claimed, the claim was rejected, and the third
\* call claimed the same bonus again: its new claim is pending.
C21_Witness ==
    /\ calls = 3
    /\ ret.outcome = "ok"
    /\ Len(claims) = 2
    /\ claims[1].status = "rejected"
    /\ claims[2].status = "pending"
    /\ claims[2].bonusId = claims[1].bonusId
    /\ ~bonuses[claims[1].bonusId].isClaimed

\* C22: claimBonus fails with NotFound when the bonus does not exist, else
\* with Forbidden when the caller is not the bonus's referrer, else with
\* AlreadyClaimed when the bonus is claimed, else with ClaimPending when the
\* bonus has a pending claim; a failing call inserts no claim and changes no
\* balance and no bonus.
C22_ClaimBonusChecksInOrder ==
    [][\A p \in Procs :
          /\ (pc[p] = "idle" /\ calls' # calls
                /\ (ret'.proc = p \/ pc'[p] = "claimBonus_hasPendingClaim")) =>
             \A u \in Callers, b \in CallIds(bonuses) :
                claimBonus_findById(p, u, b) =>
                    /\ db' = db
                    /\ IF b \notin IdsOf(bonuses)
                       THEN pc'[p] = "idle" /\ ret'.outcome = "NotFound"
                       ELSE IF bonuses[b].referrerId # u
                       THEN pc'[p] = "idle" /\ ret'.outcome = "Forbidden"
                       ELSE IF bonuses[b].isClaimed
                       THEN pc'[p] = "idle" /\ ret'.outcome = "AlreadyClaimed"
                       ELSE pc'[p] = "claimBonus_hasPendingClaim"
          /\ (pc[p] = "claimBonus_hasPendingClaim" /\ pc'[p] # pc[p]) =>
                /\ db' = db
                /\ (\E c \in IdsOf(claims) :
                        claims[c].bonusId = loc[p].id /\ claims[c].status = "pending")
                       <=> (pc'[p] = "idle" /\ ret'.outcome = "ClaimPending")
          /\ ret'.outcome \in {"NotFound", "Forbidden", "AlreadyClaimed", "ClaimPending"} =>
                db' = db
      ]_vars

\* C22 witness: the only bonus was claimed and the claim approved; the third
\* call, on that claimed bonus by an account that is not its referrer, failed
\* with Forbidden.
C22_Witness ==
    /\ calls = 3
    /\ Len(bonuses) = 1
    /\ bonuses[1].isClaimed
    /\ Len(claims) = 1
    /\ claims[1].status = "approved"
    /\ ret.outcome = "Forbidden"

C24_ApproveClaimAtomic ==
    /\ \A c \in IdsOf(claims) :
          /\ (audit.clCredit[c] > 0) <=> (claims[c].status = "approved")
          /\ (audit.clCredit[c] > 0) => bonuses[claims[c].bonusId].isClaimed
    /\ \A b \in IdsOf(bonuses) :
          bonuses[b].isClaimed =>
              \E c \in IdsOf(claims) :
                  claims[c].bonusId = b /\ claims[c].status = "approved"

\* C25: a createWithdrawalRequest call with an amount of at least the
\* minimum fails with EligibilityNotMet exactly when fewer than 5 of the
\* accounts the caller referred have an approved deposit, counted when the
\* call is made, and the error then carries 5 minus that number; with 4 such
\* accounts the call fails with 1 still needed, and it passes the check once
\* a fifth referred account's deposit is approved.
C25_EligibilityGate ==
    [][\A p \in Procs :
        (pc[p] = "idle" /\ calls' # calls
            /\ (ret'.proc = p \/ pc'[p] = "createWithdrawalRequest_lock")) =>
        LET Gate(u, a, b) ==
                (createWithdrawalRequest_validate(p, u, a, b) /\ a >= 100) =>
                  LET confirmed ==
                          Cardinality({v \in DOMAIN users :
                              /\ users[v].referredBy = u
                              /\ \E d \in IdsOf(deposits) :
                                    /\ deposits[d].userId = v
                                    /\ deposits[d].status = "approved"})
                  IN  /\ (confirmed < 5) <=> (ret'.outcome = "EligibilityNotMet")
                      /\ confirmed < 5 => ret'.needed = 5 - confirmed
                      /\ confirmed = 4 =>
                            (ret'.outcome = "EligibilityNotMet" /\ ret'.needed = 1)
                      /\ (confirmed >= 5 /\ b = ValidUpi) =>
                            pc'[p] = "createWithdrawalRequest_lock"
        IN  /\ \A u \in Callers, a \in WithdrawAmounts : Gate(u, a, ValidUpi)
            /\ \A b \in BankDetailsInputs : Gate(Referrer, 20000, b)
      ]_vars

\* C25 witness: the referrer had four confirmed referrals; a fifth referred
\* account's deposit was approved and the referrer's withdrawal of 20,000
\* was then created, and one of the three calls left no trace.
C25_Witness ==
    /\ calls = 3
    /\ Quiescent
    /\ Len(deposits) = 7
    /\ deposits[6].status = "approved"
    /\ deposits[7].status = "pending"
    /\ confirmedReferrals(Referrer) = 5
    /\ Len(withdrawals) = 1
    /\ withdrawals[1].amount = 20000
    /\ withdrawals[1].status = "pending"

\* C26: approveDeposit, rejectWithdrawal and approveClaim commit in full or
\* roll back in full, also when a query after the balance write fails: when
\* no call is in progress, a request that is still pending has had nothing
\* credited or refunded for it, and a bonus whose claims are all pending or
\* rejected is not claimed.
C26_FailureRollsBack ==
    Quiescent =>
        /\ \A d \in IdsOf(deposits) :
              deposits[d].status = "pending" => audit.depCredit[d] = 0
        /\ \A w \in IdsOf(withdrawals) :
              withdrawals[w].status = "pending" => audit.wdRefund[w] = 0
        /\ \A c \in IdsOf(claims) :
              claims[c].status = "pending" => audit.clCredit[c] = 0

\* C27: deleteUser does not remove an account that has a pending deposit
\* request, withdrawal request or bonus claim: a step that removes an
\* account starts in a state where no pending request refers to it.
C27_NoDeleteWhilePending ==
    [][\A u \in DOMAIN users :
          u \notin DOMAIN users' =>
              /\ \A d \in IdsOf(deposits) :
                    deposits[d].userId = u => deposits[d].status # "pending"
              /\ \A w \in IdsOf(withdrawals) :
                    withdrawals[w].userId = u => withdrawals[w].status # "pending"
              /\ \A c \in IdsOf(claims) :
                    claims[c].userId = u => claims[c].status # "pending"]_vars

\* C28: only approveClaim credits a referrer for a bonus.  A step of
\* approveDeposit on the deposit of a referred account leaves the balance of
\* that account's referrer unchanged; every step of createBonusForDeposit,
\* claimBonus and rejectClaim, and the first step of every call, leaves all
\* balances unchanged.
C28_BonusCreditedOnlyByApproveClaim ==
    [][\A p \in Procs :
          /\ (/\ pc[p] \in {"approveDeposit_findUser", "approveDeposit_updateBalance",
                             "approveDeposit_updateStatus"}
              /\ pc'[p] # pc[p]
              /\ loc[p].userId \in DOMAIN users
              /\ users[loc[p].userId].referredBy \in DOMAIN users) =>
                users'[users[loc[p].userId].referredBy] =
                    users[users[loc[p].userId].referredBy]
          /\ (/\ pc[p] \in {"createBonusForDeposit_findUser",
                             "createBonusForDeposit_create",
                             "claimBonus_hasPendingClaim",
                             "claimBonus_createClaimRequest",
                             "rejectClaim_updateClaimStatus"}
              /\ pc'[p] # pc[p]) => users' = users
          /\ (pc[p] = "idle" /\ pc'[p] # "idle") => users' = users
          /\ (pc[p] = "idle" /\ ret'.proc = p /\ calls' # calls) => users' = users
      ]_vars

\* C28 witness: the deposit of the referred account was approved and made a
\* second bonus, the referrer claimed a bonus and the claim was rejected; the
\* referrer's balance is what it was.
C28_Witness ==
    /\ Quiescent
    /\ deposits[Len(InitDeposits)].status = "approved"
    /\ Len(bonuses) = Len(InitBonuses) + 1
    /\ Len(claims) = 1
    /\ claims[1].status = "rejected"
    /\ users[Referrer].walletBalance = InitialBalance
    /\ users[Referred].walletBalance = PendingDepositAmount

\* C29: the status check and the status write of an approve, reject or
\* confirm call happen in one locked transaction: while a call is between
\* its check and its write, no step of another call changes the status of
\* the request it works on or the balance of the account it writes.
C29_CheckAndWriteIsolated ==
    [][\A p \in Procs :
          pc'[p] = pc[p] =>
              /\ pc[p] \in {"approveDeposit_findUser", "approveDeposit_updateBalance",
                            "approveDeposit_updateStatus"} =>
                    /\ deposits'[loc[p].id].status = deposits[loc[p].id].status
                    /\ users'[loc[p].userId].walletBalance =
                           users[loc[p].userId].walletBalance
              /\ pc[p] = "rejectDeposit_updateStatus" =>
                    deposits'[loc[p].id].status = deposits[loc[p].id].status
              /\ pc[p] = "confirmWithdrawal_updateStatus" =>
                    withdrawals'[loc[p].id].status = withdrawals[loc[p].id].status
              /\ pc[p] \in {"rejectWithdrawal_findUser", "rejectWithdrawal_updateBalance",
                            "rejectWithdrawal_updateStatus"} =>
                    /\ withdrawals'[loc[p].id].status = withdrawals[loc[p].id].status
                    /\ users'[loc[p].userId].walletBalance =
                           users[loc[p].userId].walletBalance
              /\ pc[p] \in {"approveClaim_findUser", "approveClaim_updateBalance",
                            "approveClaim_markAsClaimed",
                            "approveClaim_updateClaimStatus"} =>
                    /\ claims'[loc[p].id].status = claims[loc[p].id].status
                    /\ users'[loc[p].userId].walletBalance =
                           users[loc[p].userId].walletBalance
              /\ pc[p] = "rejectClaim_updateClaimStatus" =>
                    claims'[loc[p].id].status = claims[loc[p].id].status
      ]_vars

\* C30: createWithdrawalRequest checks the amount, then the referral
\* eligibility, then the bank details, then locks the account and checks
\* the funds.  The call fails with the error of the first check that fails
\* in this order, whatever the later checks would say; a call that fails an
\* earlier check changes nothing and takes no lock, and only a call that
\* passed the three checks takes the lock.
C30_CreateWithdrawalCheckOrder ==
    [][\A p \in Procs :
          /\ (pc[p] = "idle" /\ calls' # calls
                /\ (ret'.proc = p \/ pc'[p] = "createWithdrawalRequest_lock")) =>
                \A i \in CheckOrderInputs :
                    createWithdrawalRequest_validate(p, i[1], i[2], i[3]) =>
                        LET amountTooSmall == i[2] < 100
                            ineligible ==
                                Cardinality({v \in DOMAIN users :
                                    /\ users[v].referredBy = i[1]
                                    /\ \E d \in IdsOf(deposits) :
                                          /\ deposits[d].userId = v
                                          /\ deposits[d].status = "approved"}) < 5
                            badDetails == ~validateBankDetails(i[3])
                        IN  /\ amountTooSmall => ret'.outcome = "ValidationError"
                            /\ (~amountTooSmall /\ ineligible) =>
                                  ret'.outcome = "EligibilityNotMet"
                            /\ (~amountTooSmall /\ ~ineligible /\ badDetails) =>
                                  ret'.outcome = "InvalidBankDetails"
                            /\ (~amountTooSmall /\ ~ineligible /\ ~badDetails) =>
                                  pc'[p] = "createWithdrawalRequest_lock"
                            /\ rowLock' = rowLock
                            /\ db' = db
          /\ (pc[p] = "createWithdrawalRequest_lock" /\ pc'[p] # pc[p]) =>
                IF users[loc[p].userId].walletBalance < loc[p].amount
                THEN ret'.outcome = "InsufficientFunds" /\ rowLock' = rowLock /\ db' = db
                ELSE rowLock'[loc[p].userId] = p
          /\ \A u \in DOMAIN users :
                (rowLock'[u] = p /\ rowLock[u] # p) =>
                    pc[p] = "createWithdrawalRequest_lock"
      ]_vars

\* C30 witness: the referred account, which referred nobody and holds less
\* than the amount it asked for, was refused for its missing referrals; no
\* lock is held and no withdrawal request exists.
C30_Witness ==
    /\ ret.outcome = "EligibilityNotMet"
    /\ ret.needed = 5
    /\ users[Referred].walletBalance < 20000
    /\ \A u \in DOMAIN users : rowLock[u] = NoProc
    /\ withdrawals = <<>>

\* C31: given that the earlier checks passed, createWithdrawalRequest fails
\* with InsufficientFunds exactly when the balance read under the lock is
\* below the amount; with a balance equal to the amount it succeeds and
\* leaves a balance of 0.  An amount below 100 fails with a validation error
\* in the first step, before the account row is read or locked.
C31_FundsBoundary ==
    [][\A p \in Procs :
          /\ (pc[p] = "createWithdrawalRequest_lock" /\ pc'[p] # pc[p]) =>
                /\ (users[loc[p].userId].walletBalance < loc[p].amount) <=>
                       (pc'[p] = "idle" /\ ret'.outcome = "InsufficientFunds")
                /\ (users[loc[p].userId].walletBalance >= loc[p].amount) <=>
                       (pc'[p] = "createWithdrawalRequest_commit")
          /\ (pc[p] = "createWithdrawalRequest_commit" /\ pc'[p] # pc[p]) =>
                /\ ret'.outcome = "ok"
                /\ users'[loc[p].userId].walletBalance =
                       users[loc[p].userId].walletBalance - loc[p].amount
                /\ users[loc[p].userId].walletBalance = loc[p].amount =>
                       users'[loc[p].userId].walletBalance = 0
          /\ (pc[p] = "idle" /\ ret'.proc = p /\ calls' # calls) =>
                \A u \in Callers, a \in WithdrawAmounts :
                    (a < 100 /\ createWithdrawalRequest_validate(p, u, a, ValidUpi)) =>
                        /\ ret'.outcome = "ValidationError"
                        /\ rowLock' = rowLock
                        /\ db' = db
      ]_vars

\* C31 witness: the referrer withdrew 30,000 and then the 20,000 that were
\* left; the second call succeeded and the balance is 0.
C31_Witness ==
    /\ Quiescent
    /\ ret.outcome = "ok"
    /\ Len(withdrawals) = 2
    /\ withdrawals[1].amount = 30000
    /\ withdrawals[2].amount = 20000
    /\ users[Referrer].walletBalance = 0

\* The outcomes of the validation and guard failures of the nine operations.
GuardFailures ==
    {"ValidationError", "EligibilityNotMet", "InvalidBankDetails",
     "InsufficientFunds", "NotFound", "AlreadyProcessed", "Forbidden",
     "AlreadyClaimed", "ClaimPending"}

\* The steps at which a call has only read so far.
ReadOnlySoFar ==
    {"idle", "approveDeposit_findUser", "rejectDeposit_updateStatus",
     "confirmWithdrawal_updateStatus", "rejectWithdrawal_findUser",
     "claimBonus_hasPendingClaim", "claimBonus_createClaimRequest",
     "approveClaim_findUser", "rejectClaim_updateClaimStatus",
     "createWithdrawalRequest_lock"}

\* C32: an approve, reject or confirm call on an id that no request has
\* fails with NotFound, and a call that fails a validation or a guard has
\* no side effect: it fails at a step before which it has only read, the
\* failing step and the steps before it change no balance, request, bonus
\* or claim, and it holds no lock afterwards.
C32_FailuresHaveNoEffect ==
    [][\A p \in Procs :
          /\ (ret'.proc = p /\ ret'.outcome \in GuardFailures) =>
                /\ pc[p] \in ReadOnlySoFar
                /\ pc'[p] = "idle"
                /\ db' = db
                /\ rowLock' = rowLock
          /\ (pc'[p] # pc[p] /\ pc'[p] \in ReadOnlySoFar \ {"idle"}) => db' = db
          /\ (/\ pc[p] = "idle" /\ ret'.proc = p /\ calls' # calls
              /\ \/ approveDeposit_findById(p, UnknownId, AdminId)
                 \/ \E r \in Reasons : rejectDeposit_findById(p, UnknownId, AdminId, r)
                 \/ confirmWithdrawal_findById(p, UnknownId, AdminId)
                 \/ rejectWithdrawal_findById(p, UnknownId, AdminId, NULL)
                 \/ approveClaim_findClaimById(p, UnknownId, AdminId)
                 \/ rejectClaim_findClaimById(p, UnknownId, AdminId, NULL)) =>
                    (ret'.outcome = "NotFound" /\ db' = db)
      ]_vars

\* C32 witness: three calls were made and failed, the last one with
\* NotFound, and every table is as it was at the start.
C32_Witness ==
    /\ calls = 3
    /\ Quiescent
    /\ ret.outcome = "NotFound"
    /\ users = InitUsers
    /\ deposits = InitDeposits
    /\ withdrawals = <<>>
    /\ bonuses = InitBonuses
    /\ claims = <<>>

\* C33: the account lock is only ever held by a createWithdrawalRequest call
\* that is about to commit, so it is released on every path; under fair
\* scheduling every lock that is taken is released again and every call that
\* has started, waiting for the lock or not, returns.
C33_LockReleasedAndCallsReturn ==
    /\ [](\A u \in DOMAIN rowLock :
            rowLock[u] # NoProc => pc[rowLock[u]] = "createWithdrawalRequest_commit")
    /\ \A u \in DOMAIN InitUsers : []<>(rowLock[u] = NoProc)
    /\ \A p \in Procs : []<>(pc[p] = "idle")

\* C33 witness: a createWithdrawalRequest call waits for the lock on the
\* account row that another call holds.
C33_Witness ==
    \E p, q \in Procs :
        /\ p # q
        /\ pc[p] = "createWithdrawalRequest_lock"
        /\ pc[q] = "createWithdrawalRequest_commit"
        /\ rowLock[loc[p].userId] = q

\* C34: every bonus claim belongs to an existing bonus, its amount is that
\* bonus's bonusAmount and its user is that bonus's referrer; a claimBonus
\* call that succeeds adds exactly one claim, with status pending, for the
\* bonus and the caller it was made with.
C34_ClaimCopiesBonus ==
    /\ [](\A c \in IdsOf(claims) :
            /\ claims[c].bonusId \in IdsOf(bonuses)
            /\ claims[c].amount = bonuses[claims[c].bonusId].bonusAmount
            /\ claims[c].userId = bonuses[claims[c].bonusId].referrerId)
    /\ [][\A p \in Procs :
            (pc[p] = "claimBonus_createClaimRequest" /\ pc'[p] = "idle"
                /\ ret'.outcome = "ok") =>
                /\ Len(claims') = Len(claims) + 1
                /\ \A c \in 1 .. Len(claims) : claims'[c] = claims[c]
                /\ claims'[Len(claims')].status = "pending"
                /\ claims'[Len(claims')].bonusId = loc[p].id
                /\ claims'[Len(claims')].userId = loc[p].userId
                /\ claims'[Len(claims')].amount = bonuses[loc[p].id].bonusAmount
         ]_vars

\* C34 witness: the deposit of 50,000 was approved and made a second bonus
\* of 2,500, which the referrer claimed: the pending claim is for 2,500.
C34_Witness ==
    /\ Quiescent
    /\ Len(bonuses) = 2
    /\ bonuses[2].bonusAmount = 2500
    /\ \E c \in IdsOf(claims) :
          /\ claims[c].bonusId = 2
          /\ claims[c].amount = 2500
          /\ claims[c].userId = Referrer
          /\ claims[c].status = "pending"

\* What approveClaim calls have credited for the claims of bonus b.
CreditedForBonus(b) ==
    SumSeq([c \in 1 .. Len(claims) |->
               IF claims[c] # Gone /\ claims[c].bonusId = b
               THEN audit.clCredit[c] ELSE 0])

\* C35: each referral bonus is paid out at most once: whenever no call is in
\* progress, a bonus has at most one approved claim, what was credited to the
\* referrer for it is at most its bonusAmount, and it is claimed exactly
\* when it has an approved claim.
C35_BonusPaidOnce ==
    Quiescent =>
        \A b \in IdsOf(bonuses) :
            /\ Cardinality({c \in IdsOf(claims) :
                   claims[c].bonusId = b /\ claims[c].status = "approved"}) <= 1
            /\ CreditedForBonus(b) <= bonuses[b].bonusAmount
            /\ bonuses[b].isClaimed <=>
                   \E c \in IdsOf(claims) :
                       claims[c].bonusId = b /\ claims[c].status = "approved"

\* C36: in every reachable state every referral bonus has a source deposit
\* with status approved, carries that deposit's amount and owner, and has
\* the owner's referrer as its referrer; no bonus exists for a pending or
\* rejected deposit, however approveDeposit and rejectDeposit interleave.
C36_BonusHasApprovedDeposit ==
    \A b \in IdsOf(bonuses) :
        /\ bonuses[b].depositId \in IdsOf(deposits)
        /\ deposits[bonuses[b].depositId].status = "approved"
        /\ bonuses[b].depositAmount = deposits[bonuses[b].depositId].amount
        /\ bonuses[b].referredUserId = deposits[bonuses[b].depositId].userId
        /\ bonuses[b].referredUserId \in DOMAIN users
        /\ bonuses[b].referrerId = users[bonuses[b].referredUserId].referredBy

\* The statuses that the processing methods write.
Terminal == {"approved", "completed", "rejected"}

ProcessedFieldsOf(table) ==
    \A i \in IdsOf(table) :
        /\ table[i].processedAt <=> table[i].status \in Terminal
        /\ table[i].processedBy # NULL <=> table[i].status \in Terminal
        /\ table[i].rejectionReason # NULL => table[i].status = "rejected"

\* C37: every deposit request, withdrawal request and bonus claim has
\* processedAt and processedBy set exactly when its status is approved,
\* completed or rejected, has a rejection reason only when it is rejected, and every
\* write of a terminal status stores the administrator of the writing call
\* as processedBy (and that call's reason, or none on approval).
C37_ProcessedFields ==
    /\ [](ProcessedFieldsOf(deposits) /\ ProcessedFieldsOf(withdrawals)
            /\ ProcessedFieldsOf(claims))
    /\ [][\A p \in Procs :
             /\ (pc[p] = "approveDeposit_updateStatus" /\ pc'[p] # pc[p]) =>
                   /\ deposits'[loc[p].id].status = "approved"
                   /\ deposits'[loc[p].id].processedBy = loc[p].adminId
                   /\ deposits'[loc[p].id].rejectionReason = NULL
             /\ (pc[p] = "rejectDeposit_updateStatus" /\ pc'[p] # pc[p]) =>
                   /\ deposits'[loc[p].id].status = "rejected"
                   /\ deposits'[loc[p].id].processedBy = loc[p].adminId
                   /\ deposits'[loc[p].id].rejectionReason = loc[p].reason
             /\ (pc[p] = "confirmWithdrawal_updateStatus" /\ pc'[p] # pc[p]) =>
                   /\ withdrawals'[loc[p].id].status = "completed"
                   /\ withdrawals'[loc[p].id].processedBy = loc[p].adminId
                   /\ withdrawals'[loc[p].id].rejectionReason = NULL
             /\ (pc[p] = "rejectWithdrawal_updateStatus" /\ pc'[p] # pc[p]) =>
                   /\ withdrawals'[loc[p].id].status = "rejected"
                   /\ withdrawals'[loc[p].id].processedBy = loc[p].adminId
                   /\ withdrawals'[loc[p].id].rejectionReason = loc[p].reason
             /\ (pc[p] = "approveClaim_updateClaimStatus" /\ pc'[p] # pc[p]) =>
                   /\ claims'[loc[p].id].status = "approved"
                   /\ claims'[loc[p].id].processedBy = loc[p].adminId
                   /\ claims'[loc[p].id].rejectionReason = NULL
             /\ (pc[p] = "rejectClaim_updateClaimStatus" /\ pc'[p] # pc[p]) =>
                   /\ claims'[loc[p].id].status = "rejected"
                   /\ claims'[loc[p].id].processedBy = loc[p].adminId
                   /\ claims'[loc[p].id].rejectionReason = loc[p].reason
         ]_vars

\* C37 witness: the deposit was rejected with a reason by one administrator
\* and then approved by the call of the other, which had read it as pending;
\* the row names the second administrator and has no reason.
C37_Witness ==
    /\ Quiescent
    /\ calls = 2
    /\ deposits[Len(InitDeposits)].status = "approved"
    /\ deposits[Len(InitDeposits)].processedBy = SecondAdminId
    /\ deposits[Len(InitDeposits)].rejectionReason = NULL
    /\ audit.depOk[Len(InitDeposits)] = 2
    /\ audit.depCredit[Len(InitDeposits)] = PendingDepositAmount

\* The step of approveDeposit, rejectWithdrawal and approveClaim that looks
\* up the account of the request.
AtFindUser(p) ==
    pc[p] \in {"approveDeposit_findUser", "rejectWithdrawal_findUser",
               "approveClaim_findUser"}

\* C38: when approveDeposit, rejectWithdrawal or approveClaim looks up the
\* account of its request and the account does not exist, the call fails
\* with 'User not found' and writes nothing: no request changes status, no
\* balance changes, no bonus is created or marked claimed.
C38_MissingOwnerNotFound ==
    [][\A p \in Procs :
          (AtFindUser(p) /\ pc'[p] # pc[p] /\ loc[p].userId \notin DOMAIN users) =>
              /\ pc'[p] = "idle"
              /\ ret'.proc = p
              /\ ret'.outcome = "NotFound"
              /\ db' = db
              /\ audit' = audit
      ]_vars

\* C38 witness: approveDeposit has read the pending deposit of an account
\* that a deleteUser call, which has returned, removed before the lookup of
\* the account.
C38_Witness ==
    \E p \in Procs :
        /\ pc[p] = "approveDeposit_findUser"
        /\ loc[p].userId = Referred
        /\ Referred \notin DOMAIN users
        /\ ret.proc # p
        /\ ret.outcome = "ok"
        /\ users[Referrer].walletBalance = InitialBalance

\* The accounts a processed_by column may name: the administrator, whose
\* account deleteUser refuses to delete.
ExistingAccounts == DOMAIN users \cup {AdminId}

ReferentialIntegrity ==
    /\ \A u \in DOMAIN users : users[u].referredBy \in DOMAIN users \cup {NULL}
    /\ \A d \in IdsOf(deposits) :
          /\ deposits[d].userId \in DOMAIN users
          /\ deposits[d].processedBy \in ExistingAccounts \cup {NULL}
    /\ \A w \in IdsOf(withdrawals) :
          /\ withdrawals[w].userId \in DOMAIN users
          /\ withdrawals[w].processedBy \in ExistingAccounts \cup {NULL}
    /\ \A b \in IdsOf(bonuses) :
          /\ bonuses[b].referrerId \in DOMAIN users
          /\ bonuses[b].referredUserId \in DOMAIN users
          /\ bonuses[b].depositId \in IdsOf(deposits)
    /\ \A c \in IdsOf(claims) :
          /\ claims[c].userId \in DOMAIN users
          /\ claims[c].bonusId \in IdsOf(bonuses)
          /\ claims[c].processedBy \in ExistingAccounts \cup {NULL}

\* C39: in every state reached by the service methods and deleteUser, every
\* deposit request, withdrawal request, bonus and claim names an existing
\* account, every bonus an existing deposit and every claim an existing
\* bonus; a step that deletes an account leaves the balance of every other
\* account as it was.
C39_ReferentialIntegrity ==
    /\ []ReferentialIntegrity
    /\ [][DOMAIN users' # DOMAIN users =>
             /\ DOMAIN users' \subseteq DOMAIN users
             /\ \A u \in DOMAIN users' :
                   users'[u].walletBalance = users[u].walletBalance
         ]_vars

\* C39 witness: the referrer, who had a bonus and a claim on it, was
\* deleted; bonus and claim are gone with the account and the referred
\* account has no referrer any more.
C39_Witness ==
    /\ Referrer \notin DOMAIN users
    /\ Referred \in DOMAIN users
    /\ users[Referred].referredBy = NULL
    /\ Len(claims) = 1
    /\ IdsOf(claims) = {}
    /\ IdsOf(bonuses) = {}
    /\ Len(InitDeposits) \in IdsOf(deposits)
    /\ ret.outcome = "ok"

\* The length of the page (limit, offset) of a queue of n requests.
PageLen(n, limit, offset) ==
    IF n <= offset THEN 0
    ELSE IF n - offset < limit THEN n - offset ELSE limit

\* C40: a read of a pending queue returns the page of the requests that are
\* pending at the time of the read, oldest first, and as total the number of
\* requests pending at that time, so the page has the length that the total
\* gives; a request that is no longer pending is in no later page and never
\* becomes pending again.
C40_PendingQueueExact ==
    [][/\ \A p \in Procs :
             /\ (pc[p] = "idle" /\ pc'[p] = "findPending_countQuery") =>
                   loc'[p].rows =
                       PendingRows(loc'[p].kind, loc'[p].limit, loc'[p].offset)
             /\ (pc[p] = "idle" /\ pc'[p] = "findPending_query") =>
                   loc'[p].total = PendingCount(loc'[p].kind)
             /\ (pc[p] = "findPending_countQuery" /\ pc'[p] = "idle") =>
                   ret'.total = PendingCount(ret'.kind)
             /\ (pc[p] = "findPending_query" /\ pc'[p] = "idle") =>
                   /\ ret'.rows = PendingRows(ret'.kind, ret'.limit, ret'.offset)
                   /\ \A i \in 1 .. Len(ret'.rows) :
                         /\ TableOf(ret'.kind)[ret'.rows[i]].status = "pending"
                         /\ i > 1 => ret'.rows[i - 1] < ret'.rows[i]
             /\ (pc[p] \in {"findPending_countQuery", "findPending_query"}
                 /\ pc'[p] = "idle") =>
                   Len(ret'.rows) = PageLen(ret'.total, ret'.limit, ret'.offset)
       /\ \A kind \in Kinds : \A i \in IdsOf(TableOf(kind)) :
             TableOf(kind)[i].status # "pending" =>
                 TableOf(kind)'[i].status # "pending"
      ]_vars

====
